---- MODULE Spec2Model ----
(***************************************************************************)
(* A model of the lesson-plan analyser of graceskyliz/RIC                  *)
(* (src/pdf_processor.py) and of the request handlers that drive it        *)
(* (src/routes.py).                                                        *)
(*                                                                         *)
(* A Python str is a sequence of one-character strings; offsets are        *)
(* Python's (0-based), so the character at offset k of s is s[k + 1].      *)
(***************************************************************************)
EXTENDS Integers, Sequences, FiniteSets, TLC

VARIABLES
    op,        \* the operation the current call applies ("clean", ...)
    pc,        \* "call": the call is pending; "done": it has returned
    text,      \* the str argument of the call
    fault,     \* the step of the call that raises an exception, or "none"
    cleaned,   \* the value _clean_text returned
    sections,  \* a sections map: category name -> span
    spans,     \* start_pos and end_pos of _extract_sections, per category
    score,     \* the value _calculate_completeness_score returned
    result,    \* the value analyze_lesson_plan_structure returned
    files,     \* the upload folder: for every record, the pages of its PDF
    analyses,  \* the table of ClassroomAnalysis records, by id
    out,       \* the value an extractor returned
    processors,\* the PDFProcessor instances: the catalogs each one holds
    calls      \* the calls of analyze_lesson_plan_structure made so far

vars == <<op, pc, text, fault, cleaned, sections, spans, score, result, files, analyses,
          out, processors, calls>>

(***************************************************************************)
(* Characters and the str methods the code uses.                           *)
(***************************************************************************)

\* The characters \s matches and str.strip() removes.
Whitespace == {" ", "\n", "\t"}

\* The characters \d matches.
Digits == {"0", "1", "2", "3", "4", "5", "6", "7", "8", "9"}

IsSpace(c) == c \in Whitespace

\* s[i:j] of Python for 0 <= i and any j: empty when j <= i.
Slice(s, i, j) ==
    LET hi == IF j > Len(s) THEN Len(s) ELSE j
    IN  IF hi <= i THEN << >> ELSE SubSeq(s, i + 1, hi)

\* lit occurs in s at offset i.
LitAt(lit, s, i) ==
    /\ i >= 0
    /\ i + Len(lit) <= Len(s)
    /\ \A k \in 1..Len(lit) : s[i + k] = lit[k]

\* The offset of the first character at or after offset i that is not
\* whitespace (Len(s) when there is none).
RECURSIVE SkipSpace(_, _)
SkipSpace(s, i) ==
    IF i < Len(s) /\ IsSpace(s[i + 1]) THEN SkipSpace(s, i + 1) ELSE i

\* The offset just after the last character before offset j that is not
\* whitespace (0 when there is none).
RECURSIVE SkipSpaceBack(_, _)
SkipSpaceBack(s, j) ==
    IF j > 0 /\ IsSpace(s[j]) THEN SkipSpaceBack(s, j - 1) ELSE j

\* str.strip()
Strip(s) == Slice(s, SkipSpace(s, 0), SkipSpaceBack(s, Len(s)))

\* The least offset of the set of offsets P that is >= i, or -1.
NextAt(P, i) ==
    LET Q == {p \in P : p >= i}
    IN  IF Q = {} THEN -1 ELSE CHOOSE p \in Q : \A q \in Q : p <= q

(***************************************************************************)
(* _clean_text                                                             *)
(***************************************************************************)

\* re.sub(r'\s+', ' ', text): every maximal run of whitespace becomes one
\* space.  The scan resumes after each run.
RECURSIVE SubSpaceRuns(_, _)
SubSpaceRuns(s, i) ==
    LET p == NextAt({k \in i..(Len(s) - 1) : IsSpace(s[k + 1])}, i)
    IN  IF p = -1 THEN Slice(s, i, Len(s))
        ELSE Slice(s, i, p) \o <<" ">> \o SubSpaceRuns(s, SkipSpace(s, p))

\* re.sub(r'\n+', '\n', text)
RECURSIVE SkipNewlines(_, _)
SkipNewlines(s, i) ==
    IF i < Len(s) /\ s[i + 1] = "\n" THEN SkipNewlines(s, i + 1) ELSE i

RECURSIVE SubNewlineRuns(_, _)
SubNewlineRuns(s, i) ==
    LET p == NextAt({k \in i..(Len(s) - 1) : s[k + 1] = "\n"}, i)
    IN  IF p = -1 THEN Slice(s, i, Len(s))
        ELSE Slice(s, i, p) \o <<"\n">> \o SubNewlineRuns(s, SkipNewlines(s, p))

\* The two literal parts of r'--- Página \d+ ---'.
MarkerHead == <<"-","-","-"," ","P","á","g","i","n","a"," ">>
MarkerTail == <<" ","-","-","-">>

RECURSIVE SkipDigits(_, _)
SkipDigits(s, i) ==
    IF i < Len(s) /\ s[i + 1] \in Digits THEN SkipDigits(s, i + 1) ELSE i

\* The offset just after a match of r'--- Página \d+ ---' that starts at
\* offset i, or -1.  \d+ is greedy and the next character of the pattern
\* is not a digit, so a match takes the whole run of digits.
MarkerEnd(s, i) ==
    LET d == i + Len(MarkerHead)
        e == SkipDigits(s, d)
    IN  IF LitAt(MarkerHead, s, i) /\ e > d /\ LitAt(MarkerTail, s, e)
        THEN e + Len(MarkerTail) ELSE -1

\* re.sub(r'--- Página \d+ ---', '', text): the matches are taken from the
\* left, and the scan resumes after each match.
RECURSIVE SubMarkers(_, _)
SubMarkers(s, i) ==
    LET p == NextAt({k \in i..(Len(s) - 1) : MarkerEnd(s, k) # -1}, i)
    IN  IF p = -1 THEN Slice(s, i, Len(s))
        ELSE Slice(s, i, p) \o SubMarkers(s, MarkerEnd(s, p))

\* A cleaner that removes the page markers and trims, and leaves the
\* whitespace inside the text as it is.
CleanKeepLines(s) == Strip(SubMarkers(s, 0))

_clean_text(s) ==
    LET t1 == SubSpaceRuns(s, 0)
        t2 == SubNewlineRuns(t1, 0)
        t3 == SubMarkers(t2, 0)
    IN  Strip(t3)

(***************************************************************************)
(* The regular expressions of the section catalog, and re.search.          *)
(* A pattern is a sequence of nodes: a literal, \s+, or a group (?:a|b)    *)
(* that may be optional.                                                   *)
(***************************************************************************)

Lit(chars) == [k |-> "lit", s |-> chars, alts |-> << >>, opt |-> FALSE]
Ws == [k |-> "ws", s |-> << >>, alts |-> << >>, opt |-> FALSE]
Grp(alternatives) == [k |-> "grp", s |-> << >>, alts |-> alternatives, opt |-> FALSE]
Opt(alternatives) == [k |-> "grp", s |-> << >>, alts |-> alternatives, opt |-> TRUE]
\* c?
OptChar(c) == Opt(<< <<Lit(<<c>>)>> >>)

\* The offsets at which a match of pat that starts at an offset of I can end.
RECURSIVE MatchEnds(_, _, _)
MatchEnds(pat, s, I) ==
    IF Len(pat) = 0 \/ I = {} THEN I
    ELSE LET n == Head(pat)
             J == CASE n.k = "lit" ->
                         {i + Len(n.s) : i \in {i \in I : LitAt(n.s, s, i)}}
                    [] n.k = "ws" ->
                         UNION {(i + 1)..SkipSpace(s, i) : i \in I}
                    [] n.k = "grp" ->
                         (IF n.opt THEN I ELSE {})
                         \cup UNION {MatchEnds(n.alts[a], s, I) : a \in 1..Len(n.alts)}
         IN  MatchEnds(Tail(pat), s, J)

\* The offsets of s at which a match of pat starts.  Every pattern of the
\* catalog begins with a literal, so a match starts at one of firsts, the
\* offsets of s that hold a first character of some pattern.
Starts(pat, s, firsts) ==
    {i \in firsts : s[i + 1] = pat[1].s[1] /\ MatchEnds(pat, s, {i}) # {}}

\* str.lower(), for the letters of Spanish text.
UpperCase == <<"A","B","C","D","E","F","G","H","I","J","K","L","M","N","Ñ","O",
               "P","Q","R","S","T","U","V","W","X","Y","Z","Á","É","Í","Ó","Ú">>
LowerCase == <<"a","b","c","d","e","f","g","h","i","j","k","l","m","n","ñ","o",
               "p","q","r","s","t","u","v","w","x","y","z","á","é","í","ó","ú">>

LowerOf ==
    [c \in {UpperCase[i] : i \in 1..Len(UpperCase)} |->
        LowerCase[CHOOSE i \in 1..Len(UpperCase) : UpperCase[i] = c]]

UpperSet == DOMAIN LowerOf

Lower(s) == << >> \o [i \in 1..Len(s) |-> IF s[i] \in UpperSet THEN LowerOf[s[i]] ELSE s[i]]

\* The character U+0130, capital I with a dot above, and the character
\* U+0307, the combining dot above.  U+0130 is the one character whose
\* lower case has two characters, i and U+0307.
DottedI == "U+0130"
DotAbove == "U+0307"

RECURSIVE LowerFrom(_, _)
LowerFrom(s, i) ==
    IF i > Len(s) THEN << >>
    ELSE (IF s[i] = DottedI THEN <<"i", DotAbove>>
          ELSE IF s[i] \in UpperSet THEN <<LowerOf[s[i]]>> ELSE <<s[i]>>)
         \o LowerFrom(s, i + 1)

\* text.lower() of a text that may hold U+0130: the result is longer than
\* the text by one character for each U+0130.
LowerText(s) ==
    IF \A i \in 1..Len(s) : s[i] # DottedI THEN Lower(s) ELSE LowerFrom(s, 1)

(***************************************************************************)
(* The section catalog and _extract_sections                               *)
(***************************************************************************)

\* The keys of section_patterns, in the order of the dict.
Categories ==
    <<"objetivos", "contenidos", "actividades", "evaluacion", "recursos", "tiempo">>

CategorySet == {Categories[i] : i \in 1..Len(Categories)}

section_patterns ==
    [ objetivos |-> <<
        \* r'objetivos?\s+(?:de\s+)?(?:aprendizaje|específicos?|generales?)'
        << Lit(<<"o","b","j","e","t","i","v","o">>),
           OptChar("s"),
           Ws,
           Opt(<<<<Lit(<<"d","e">>), Ws>>>>),
           Grp(<<
               <<Lit(<<"a","p","r","e","n","d","i","z","a","j","e">>)>>,
               << Lit(<<"e","s","p","e","c","í","f","i","c","o">>),
                  OptChar("s") >>,
               <<Lit(<<"g","e","n","e","r","a","l","e">>), OptChar("s")>>
           >>) >>,
        \* r'propósitos?\s+(?:de\s+la\s+)?(?:clase|lección)'
        << Lit(<<"p","r","o","p","ó","s","i","t","o">>),
           OptChar("s"),
           Ws,
           Opt(<<<<Lit(<<"d","e">>), Ws, Lit(<<"l","a">>), Ws>>>>),
           Grp(<<
               <<Lit(<<"c","l","a","s","e">>)>>,
               <<Lit(<<"l","e","c","c","i","ó","n">>)>>
           >>) >>,
        \* r'metas?\s+(?:de\s+)?aprendizaje'
        << Lit(<<"m","e","t","a">>),
           OptChar("s"),
           Ws,
           Opt(<<<<Lit(<<"d","e">>), Ws>>>>),
           Lit(<<"a","p","r","e","n","d","i","z","a","j","e">>) >>,
        \* r'qué\s+aprenderán'
        << Lit(<<"q","u","é">>),
           Ws,
           Lit(<<"a","p","r","e","n","d","e","r","á","n">>) >>,
        \* r'logros?\s+esperados?'
        << Lit(<<"l","o","g","r","o">>),
           OptChar("s"),
           Ws,
           Lit(<<"e","s","p","e","r","a","d","o">>),
           OptChar("s") >>
      >>,
      contenidos |-> <<
        \* r'contenidos?\s+(?:temáticos?|curriculares?)?'
        << Lit(<<"c","o","n","t","e","n","i","d","o">>),
           OptChar("s"),
           Ws,
           Opt(<<
               <<Lit(<<"t","e","m","á","t","i","c","o">>), OptChar("s")>>,
               << Lit(<<"c","u","r","r","i","c","u","l","a","r","e">>),
                  OptChar("s") >>
           >>) >>,
        \* r'temas?\s+(?:a\s+)?(?:desarrollar|tratar)'
        << Lit(<<"t","e","m","a">>),
           OptChar("s"),
           Ws,
           Opt(<<<<Lit(<<"a">>), Ws>>>>),
           Grp(<<
               <<Lit(<<"d","e","s","a","r","r","o","l","l","a","r">>)>>,
               <<Lit(<<"t","r","a","t","a","r">>)>>
           >>) >>,
        \* r'materias?\s+(?:de\s+estudio)?'
        << Lit(<<"m","a","t","e","r","i","a">>),
           OptChar("s"),
           Ws,
           Opt(<<
               <<Lit(<<"d","e">>), Ws, Lit(<<"e","s","t","u","d","i","o">>)>>
           >>) >>,
        \* r'conceptos?\s+(?:clave|principales?)'
        << Lit(<<"c","o","n","c","e","p","t","o">>),
           OptChar("s"),
           Ws,
           Grp(<<
               <<Lit(<<"c","l","a","v","e">>)>>,
               << Lit(<<"p","r","i","n","c","i","p","a","l","e">>),
                  OptChar("s") >>
           >>) >>
      >>,
      actividades |-> <<
        \* r'actividades?\s+(?:de\s+)?(?:aprendizaje|enseñanza)?'
        << Lit(<<"a","c","t","i","v","i","d","a","d","e">>),
           OptChar("s"),
           Ws,
           Opt(<<<<Lit(<<"d","e">>), Ws>>>>),
           Opt(<<
               <<Lit(<<"a","p","r","e","n","d","i","z","a","j","e">>)>>,
               <<Lit(<<"e","n","s","e","ñ","a","n","z","a">>)>>
           >>) >>,
        \* r'estrategias?\s+(?:didácticas?|metodológicas?)'
        << Lit(<<"e","s","t","r","a","t","e","g","i","a">>),
           OptChar("s"),
           Ws,
           Grp(<<
               <<Lit(<<"d","i","d","á","c","t","i","c","a">>), OptChar("s")>>,
               << Lit(<<"m","e","t","o","d","o","l","ó","g","i","c","a">>),
                  OptChar("s") >>
           >>) >>,
        \* r'desarrollo\s+(?:de\s+la\s+)?clase'
        << Lit(<<"d","e","s","a","r","r","o","l","l","o">>),
           Ws,
           Opt(<<<<Lit(<<"d","e">>), Ws, Lit(<<"l","a">>), Ws>>>>),
           Lit(<<"c","l","a","s","e">>) >>,
        \* r'secuencia\s+didáctica'
        << Lit(<<"s","e","c","u","e","n","c","i","a">>),
           Ws,
           Lit(<<"d","i","d","á","c","t","i","c","a">>) >>,
        \* r'metodología'
        <<Lit(<<"m","e","t","o","d","o","l","o","g","í","a">>)>>
      >>,
      evaluacion |-> <<
        \* r'evaluación\s+(?:de\s+)?(?:aprendizajes?)?'
        << Lit(<<"e","v","a","l","u","a","c","i","ó","n">>),
           Ws,
           Opt(<<<<Lit(<<"d","e">>), Ws>>>>),
           Opt(<<
               << Lit(<<"a","p","r","e","n","d","i","z","a","j","e">>),
                  OptChar("s") >>
           >>) >>,
        \* r'assessment'
        <<Lit(<<"a","s","s","e","s","s","m","e","n","t">>)>>,
        \* r'criterios?\s+de\s+evaluación'
        << Lit(<<"c","r","i","t","e","r","i","o">>),
           OptChar("s"),
           Ws,
           Lit(<<"d","e">>),
           Ws,
           Lit(<<"e","v","a","l","u","a","c","i","ó","n">>) >>,
        \* r'instrumentos?\s+de\s+evaluación'
        << Lit(<<"i","n","s","t","r","u","m","e","n","t","o">>),
           OptChar("s"),
           Ws,
           Lit(<<"d","e">>),
           Ws,
           Lit(<<"e","v","a","l","u","a","c","i","ó","n">>) >>,
        \* r'rúbricas?'
        <<Lit(<<"r","ú","b","r","i","c","a">>), OptChar("s")>>
      >>,
      recursos |-> <<
        \* r'recursos?\s+(?:didácticos?|educativos?)?'
        << Lit(<<"r","e","c","u","r","s","o">>),
           OptChar("s"),
           Ws,
           Opt(<<
               <<Lit(<<"d","i","d","á","c","t","i","c","o">>), OptChar("s")>>,
               <<Lit(<<"e","d","u","c","a","t","i","v","o">>), OptChar("s")>>
           >>) >>,
        \* r'materiales?\s+(?:educativos?|de\s+apoyo)?'
        << Lit(<<"m","a","t","e","r","i","a","l","e">>),
           OptChar("s"),
           Ws,
           Opt(<<
               <<Lit(<<"e","d","u","c","a","t","i","v","o">>), OptChar("s")>>,
               <<Lit(<<"d","e">>), Ws, Lit(<<"a","p","o","y","o">>)>>
           >>) >>,
        \* r'herramientas?'
        <<Lit(<<"h","e","r","r","a","m","i","e","n","t","a">>), OptChar("s")>>,
        \* r'tecnología\s+educativa'
        << Lit(<<"t","e","c","n","o","l","o","g","í","a">>),
           Ws,
           Lit(<<"e","d","u","c","a","t","i","v","a">>) >>
      >>,
      tiempo |-> <<
        \* r'tiempo\s+(?:estimado|asignado)'
        << Lit(<<"t","i","e","m","p","o">>),
           Ws,
           Grp(<<
               <<Lit(<<"e","s","t","i","m","a","d","o">>)>>,
               <<Lit(<<"a","s","i","g","n","a","d","o">>)>>
           >>) >>,
        \* r'duración\s+(?:de\s+la\s+)?(?:clase|actividad)'
        << Lit(<<"d","u","r","a","c","i","ó","n">>),
           Ws,
           Opt(<<<<Lit(<<"d","e">>), Ws, Lit(<<"l","a">>), Ws>>>>),
           Grp(<<
               <<Lit(<<"c","l","a","s","e">>)>>,
               <<Lit(<<"a","c","t","i","v","i","d","a","d">>)>>
           >>) >>,
        \* r'cronograma'
        <<Lit(<<"c","r","o","n","o","g","r","a","m","a">>)>>,
        \* r'distribución\s+del\s+tiempo'
        << Lit(<<"d","i","s","t","r","i","b","u","c","i","ó","n">>),
           Ws,
           Lit(<<"d","e","l">>),
           Ws,
           Lit(<<"t","i","e","m","p","o">>) >>
      >> ]

\* The number of characters after a heading's start in which no other
\* heading is looked for.
Lookahead == 50

\* The most characters kept of a span.
MaxSpan == 1000

\* The first characters of the patterns of the catalog.
FirstChars ==
    {section_patterns[c][k][1].s[1] : <<c, k>> \in
        UNION {{<<c, k>> : k \in 1..Len(section_patterns[c])} : c \in CategorySet}}

\* For every pattern of the catalog, the offsets of text_lower at which a
\* match of it starts: what every re.search of _extract_sections draws on.
\* re.search(p, text_lower) starts at the least of them, and
\* re.search(p, text_lower[a:]) at the least of them that is >= a, less a
\* (no pattern looks behind its first character).
AllStarts(text_lower) ==
    LET firsts == {i \in 0..(Len(text_lower) - 1) : text_lower[i + 1] \in FirstChars}
    IN  [c \in CategorySet |->
            << >> \o [k \in 1..Len(section_patterns[c]) |->
                        Starts(section_patterns[c][k], text_lower, firsts)]]

\* The pattern of the category whose leftmost match is the leftmost of all
\* (0 when none matches): a locator that takes the earliest heading.
FirstPatternEarliest(name, starts) ==
    LET hits == {k \in 1..Len(starts[name]) : starts[name][k] # {}}
    IN  IF hits = {} THEN 0
        ELSE CHOOSE k \in hits :
                 \A j \in hits : NextAt(starts[name][k], 0) < NextAt(starts[name][j], 0)
                                 \/ (NextAt(starts[name][k], 0) = NextAt(starts[name][j], 0) /\ k <= j)

\* The first pattern of the category that matches anywhere in text_lower
\* (0 when none does): the loop over patterns, left at the first match.
FirstPattern(name, starts) ==
    LET hits == {k \in 1..Len(starts[name]) : starts[name][k] # {}}
    IN  IF hits = {} THEN 0 ELSE CHOOSE k \in hits : \A j \in hits : k <= j

\* match.start() of that pattern.
StartPos(name, starts) == NextAt(starts[name][FirstPattern(name, starts)], 0)

\* Every pattern of every category, the category's own included.
OtherPatternsAndOwn(name) ==
    UNION {{<<o, j>> : j \in 1..Len(section_patterns[o])} : o \in CategorySet}

\* Every pattern of every other category, as <<category, index>>.
OtherPatterns(name) ==
    UNION {{<<o, j>> : j \in 1..Len(section_patterns[o])} : o \in CategorySet \ {name}}

\* next_sections with the search started right after start_pos.
NextSectionsNoSkip(name, starts, start_pos) ==
    {NextAt(starts[oj[1]][oj[2]], start_pos + 1) :
        oj \in UNION {{<<o, j>> : j \in 1..Len(section_patterns[o])} : o \in CategorySet \ {name}}} \ {-1}

\* next_sections: for every pattern of every other category that matches
\* in text_lower[start_pos + 50:], start_pos + 50 + other_match.start().
NextSections(name, starts, start_pos) ==
    {NextAt(starts[oj[1]][oj[2]], start_pos + Lookahead) :
        oj \in OtherPatterns(name)} \ {-1}

EndPos(name, starts, start_pos, text_len) ==
    LET next_sections == NextSections(name, starts, start_pos)
    IN  IF next_sections # {}
        THEN CHOOSE p \in next_sections : \A q \in next_sections : p <= q
        ELSE text_len

\* section_content of one category after the loop over its patterns.
SectionContent(name, t, starts) ==
    IF FirstPattern(name, starts) = 0 THEN << >>
    ELSE LET start_pos == StartPos(name, starts)
             end_pos == EndPos(name, starts, start_pos, Len(t))
         IN  Strip(Slice(t, start_pos, end_pos))

\* start_pos and end_pos of every category whose loop over the patterns
\* found a match.
SectionSpans(t) ==
    LET starts == AllStarts(LowerText(t))
    IN  [name \in {c \in CategorySet : FirstPattern(c, starts) # 0} |->
            [start_pos |-> StartPos(name, starts),
             end_pos |-> EndPos(name, starts, StartPos(name, starts), Len(t))]]

\* The map with the spans kept whole.
ExtractSectionsWhole(t) ==
    LET starts == AllStarts(LowerText(t))
        found == {c \in CategorySet : FirstPattern(c, starts) # 0}
    IN  [name \in {c \in found : SectionContent(c, t, starts) # << >>} |->
            SectionContent(name, t, starts)]

_extract_sections(t) ==
    LET text_lower == LowerText(t)
        starts == AllStarts(text_lower)
        found == {c \in CategorySet : FirstPattern(c, starts) # 0}
    IN  [name \in {c \in found : SectionContent(c, t, starts) # << >>} |->
            Slice(SectionContent(name, t, starts), 0, MaxSpan)]

(***************************************************************************)
(* The extractors                                                          *)
(***************************************************************************)

\* The offsets of s that hold a character of chars.
OffsetsOf(s, chars) == {i \in 0..(Len(s) - 1) : s[i + 1] \in chars}

\* The least element of a non-empty set of integers, and the greatest.
Min(S) == CHOOSE p \in S : \A q \in S : p <= q
Max(S) == CHOOSE p \in S : \A q \in S : p >= q

\* The keys of grade_indicators, in the order of the dict, each with its
\* indicator tokens.
grade_indicators ==
    << [level |-> "preescolar", indicators |-> <<
          <<"p","r","e","e","s","c","o","l","a","r">>,
          <<"j","a","r","d","í","n">>,
          <<"k","i","n","d","e","r">>,
          <<"i","n","i","c","i","a","l">> >>],
       [level |-> "primaria_baja", indicators |-> <<
          <<"1","°">>,
          <<"2","°">>,
          <<"3","°">>,
          <<"p","r","i","m","e","r","o">>,
          <<"s","e","g","u","n","d","o">>,
          <<"t","e","r","c","e","r","o">>,
          <<"g","r","a","d","o">> >>],
       [level |-> "primaria_alta", indicators |-> <<
          <<"4","°">>,
          <<"5","°">>,
          <<"6","°">>,
          <<"c","u","a","r","t","o">>,
          <<"q","u","i","n","t","o">>,
          <<"s","e","x","t","o">> >>],
       [level |-> "secundaria", indicators |-> <<
          <<"7","°">>,
          <<"8","°">>,
          <<"9","°">>,
          <<"s","é","p","t","i","m","o">>,
          <<"o","c","t","a","v","o">>,
          <<"n","o","v","e","n","o">>,
          <<"s","e","c","u","n","d","a","r","i","a">> >>],
       [level |-> "bachillerato", indicators |-> <<
          <<"1","0","°">>,
          <<"1","1","°">>,
          <<"1","2","°">>,
          <<"d","é","c","i","m","o">>,
          <<"o","n","c","e">>,
          <<"d","o","c","e">>,
          <<"b","a","c","h","i","l","l","e","r","a","t","o">>,
          <<"p","r","e","p","a","r","a","t","o","r","i","a">> >>] >>

\* The detector without the break: the level is appended once for every
\* indicator of it that is in the text.
GradeWithoutBreak(t) ==
    LET text_lower == LowerText(t)
        of(l) == LET found == SelectSeq(grade_indicators[l].indicators,
                                        LAMBDA w : \E i \in 0..Len(t) : LitAt(w, text_lower, i))
                 IN  [j \in 1..Len(found) |-> grade_indicators[l].level]
    IN  of(1) \o of(2) \o of(3) \o of(4) \o of(5)

_detect_grade_level(t) ==
    LET text_lower == LowerText(t)
        firsts == OffsetsOf(text_lower,
                      UNION {{grade_indicators[l].indicators[k][1] :
                                 k \in 1..Len(grade_indicators[l].indicators)} :
                             l \in 1..Len(grade_indicators)})
        hit(l) == \E k \in 1..Len(grade_indicators[l].indicators) :
                      \E i \in firsts : LitAt(grade_indicators[l].indicators[k], text_lower, i)
        levels == SelectSeq([l \in 1..Len(grade_indicators) |-> l], hit)
    IN  [j \in 1..Len(levels) |-> grade_indicators[levels[j]].level]

assessment_keywords ==
    << <<"o","b","s","e","r","v","a","c","i","ó","n">>,
       <<"r","ú","b","r","i","c","a">>,
       <<"l","i","s","t","a"," ","d","e"," ","c","o","t","e","j","o">>,
       <<"p","o","r","t","a","f","o","l","i","o">>,
       <<"e","x","a","m","e","n">>,
       <<"p","r","u","e","b","a">>,
       <<"q","u","i","z">>,
       <<"p","r","o","y","e","c","t","o">>,
       <<"p","r","e","s","e","n","t","a","c","i","ó","n">>,
       <<"a","u","t","o","e","v","a","l","u","a","c","i","ó","n">>,
       <<"c","o","e","v","a","l","u","a","c","i","ó","n">>,
       <<"h","e","t","e","r","o","e","v","a","l","u","a","c","i","ó","n">> >>

UpperOf ==
    [c \in {LowerCase[i] : i \in 1..Len(LowerCase)} |->
        UpperCase[CHOOSE i \in 1..Len(LowerCase) : LowerCase[i] = c]]

IsLetter(c) == c \in DOMAIN UpperOf \/ c \in DOMAIN LowerOf

\* str.capitalize(): the first character is uppercased, the others are
\* lowercased.
Capitalize(s) ==
    [i \in 1..Len(s) |->
        IF i > 1
        THEN (IF s[i] \in DOMAIN LowerOf THEN LowerOf[s[i]] ELSE s[i])
        ELSE (IF s[i] \in DOMAIN UpperOf THEN UpperOf[s[i]] ELSE s[i])]

\* str.title(): a letter that follows a letter is lowercased, any other
\* letter is uppercased.
Title(s) ==
    [i \in 1..Len(s) |->
        IF i > 1 /\ IsLetter(s[i - 1])
        THEN (IF s[i] \in DOMAIN LowerOf THEN LowerOf[s[i]] ELSE s[i])
        ELSE (IF s[i] \in DOMAIN UpperOf THEN UpperOf[s[i]] ELSE s[i])]

\* The extractor with 'keyword in evaluation_text': the text is not
\* lowercased before the search.
MethodsCaseSensitive(evaluation_text) ==
    LET hit(k) == \E i \in 0..Len(evaluation_text) :
                      LitAt(assessment_keywords[k], evaluation_text, i)
        found == SelectSeq([k \in 1..Len(assessment_keywords) |-> k], hit)
    IN  [j \in 1..Len(found) |-> Title(assessment_keywords[found[j]])]

_extract_assessment_methods(evaluation_text) ==
    IF evaluation_text = << >> THEN << >>
    ELSE LET text_lower == LowerText(evaluation_text)
             firsts == OffsetsOf(text_lower,
                           {assessment_keywords[k][1] : k \in 1..Len(assessment_keywords)})
             hit(k) == \E i \in firsts : LitAt(assessment_keywords[k], text_lower, i)
             found == SelectSeq([k \in 1..Len(assessment_keywords) |-> k], hit)
         IN  [j \in 1..Len(found) |-> Title(assessment_keywords[found[j]])]

\* re.findall: the matches of a pattern, left to right and never
\* overlapping.  ms holds, for every offset where the pattern matches, the
\* match the engine finds there; the scan resumes at the end of each match
\* (every pattern below matches at least one character).
RECURSIVE FindAll(_, _)
FindAll(ms, pos) ==
    LET later == {m \in ms : m.start >= pos}
    IN  IF later = {} THEN << >>
        ELSE LET m == CHOOSE x \in later : \A y \in later : x.start <= y.start
             IN  <<m>> \o FindAll(ms, m.end)

\* The offsets where (?:^|\n) can match under re.MULTILINE: the start of the
\* text, the offset after a newline, and the offset of a newline.
LineStarts(s) ==
    LET nl == OffsetsOf(s, {"\n"})
    IN  ({0} \cup nl \cup {k + 1 : k \in nl}) \cap (0..(Len(s) - 1))

\* The end of the line that holds offset g: where (?=\n|$) holds.
LineEnd(s, g) ==
    LET nl == {k \in g..(Len(s) - 1) : s[k + 1] = "\n"}
    IN  IF nl = {} THEN Len(s) ELSE Min(nl)

\* (.+?) can start at offset g: there is a character and it is no newline.
CanOpenGroup(s, g) == g < Len(s) /\ s[g + 1] # "\n"

\* \s* (least = 0) or \s+ (least = 1) from offset w, then (.+?)(?=\n|$): the
\* offset where the group starts, or -1.  The whitespace is greedy and gives
\* characters back until the group can start.
GroupStart(s, w, least) ==
    LET opens == {g \in (w + least)..SkipSpace(s, w) : CanOpenGroup(s, g)}
    IN  IF opens = {} THEN -1 ELSE Max(opens)

\* [\d\-\*...]: the members of the class that the model's alphabet has.
Bullets == Digits \cup {"-", "*"}

\* The first of the alternatives words, in order, that occurs in s at
\* offset b and after which the rest of the pattern, tail, matches: the
\* pair of the offset after the word and the value of tail, or << >>.  tail
\* maps the offset after the word to the offset the rest ends at, or to -1.
FirstWord(words, s, b, tail) ==
    LET ok == {k \in 1..Len(words) : LitAt(words[k], s, b) /\ tail[b + Len(words[k])] # -1}
    IN  IF ok = {} THEN << >>
        ELSE <<b + Len(words[Min(ok)]), tail[b + Len(words[Min(ok)])]>>

\* r'(?:^|\n)\s*[\d\-\*...]\s*(.+?)(?=\n|$)'
ItemMatches(s) ==
    LET at(i) == LET b == SkipSpace(s, i)
                     g == IF b < Len(s) /\ s[b + 1] \in Bullets
                          THEN GroupStart(s, b + 1, 0) ELSE -1
                 IN  [start |-> i, group |-> g, end |-> IF g = -1 THEN -1 ELSE LineEnd(s, g)]
    IN  {m \in {at(i) : i \in LineStarts(s)} : m.group # -1}

\* r'(?:^|\n)\s*(?:word|...)\s+(.+?)(?=\n|$)' under re.IGNORECASE
LeadMatches(words, s) ==
    LET sl == Lower(s)
        tail == [w \in 0..Len(s) |-> GroupStart(s, w, 1)]
        at(i) == LET f == FirstWord(words, sl, SkipSpace(s, i), tail)
                 IN  IF f = << >> THEN [start |-> i, group |-> -1, end |-> -1]
                     ELSE [start |-> i, group |-> f[2], end |-> LineEnd(s, f[2])]
    IN  {m \in {at(i) : i \in LineStarts(s)} : m.group # -1}

\* The group of each match, stripped, for the matches whose stripped group
\* is longer than least.
Groups(s, found, least) ==
    LET stripped == [j \in 1..Len(found) |-> Strip(Slice(s, found[j].group, found[j].end))]
    IN  SelectSeq(stripped, LAMBDA g : Len(g) > least)

\* (?:que|el estudiante|los estudiantes?): the optional s is greedy
subject_words ==
    << <<"q","u","e">>,
       <<"e","l"," ","e","s","t","u","d","i","a","n","t","e">>,
       <<"l","o","s"," ","e","s","t","u","d","i","a","n","t","e","s">>,
       <<"l","o","s"," ","e","s","t","u","d","i","a","n","t","e">> >>

verb_words ==
    << <<"i","d","e","n","t","i","f","i","c","a","r">>,
       <<"r","e","c","o","n","o","c","e","r">>,
       <<"c","o","m","p","r","e","n","d","e","r">>,
       <<"a","n","a","l","i","z","a","r">>,
       <<"a","p","l","i","c","a","r">>,
       <<"e","v","a","l","u","a","r">> >>

MaxObjectives == 5
MinObjectiveLen == 10

\* The objectives the three patterns give, in the order of the patterns
\* and, for one pattern, of the text.
AllObjectives(s) ==
    Groups(s, FindAll(ItemMatches(s), 0), MinObjectiveLen)
    \o Groups(s, FindAll(LeadMatches(subject_words, s), 0), MinObjectiveLen)
    \o Groups(s, FindAll(LeadMatches(verb_words, s), 0), MinObjectiveLen)

\* The extractor without the slice [:5].
ObjectivesUncapped(objectives_text) == AllObjectives(objectives_text)

_extract_learning_objectives(objectives_text) ==
    IF objectives_text = << >> THEN << >>
    ELSE LET s == objectives_text
             objectives == AllObjectives(s)
         IN  Slice(objectives, 0, MaxObjectives)

task_words ==
    << <<"a","c","t","i","v","i","d","a","d">>,
       <<"e","j","e","r","c","i","c","i","o">>,
       <<"t","a","r","e","a">> >>

ordinal_words ==
    << <<"p","r","i","m","e","r","a">>,
       <<"s","e","g","u","n","d","a">>,
       <<"t","e","r","c","e","r","a">>,
       <<"c","u","a","r","t","a">>,
       <<"q","u","i","n","t","a">> >>

phase_words ==
    << <<"a","c","t","i","v","i","d","a","d">>,
       <<"f","a","s","e">> >>

moment_words ==
    << <<"i","n","i","c","i","o">>,
       <<"d","e","s","a","r","r","o","l","l","o">>,
       <<"c","i","e","r","r","e">> >>

step_words ==
    << <<"p","a","s","o">>,
       <<"e","t","a","p","a">> >>

\* The matches, as FindAll takes them, of a pattern whose match at offset i
\* ends at ends[i], or does not exist when ends[i] = -1.
MatchesAt(firsts, ends) ==
    {m \in {[start |-> i, end |-> ends[i]] : i \in firsts} : m.end # -1}

\* The offset after the first of the alternatives words that occurs in s at
\* offset b, or -1.
WordEnd(words, s, b) ==
    LET f == FirstWord(words, s, b, [w \in 0..Len(s) |-> w])
    IN  IF f = << >> THEN -1 ELSE f[1]

\* r'(?:^|\n)\s*[\d\-\*...]\s*(?:actividad|ejercicio|tarea)'
TaskMatches(s) ==
    LET sl == Lower(s)
        ends == [i \in 0..Len(s) |->
                    LET b == SkipSpace(s, i)
                    IN  IF b < Len(s) /\ s[b + 1] \in Bullets
                        THEN WordEnd(task_words, sl, SkipSpace(s, b + 1)) ELSE -1]
    IN  MatchesAt(LineStarts(s), ends)

\* r'(?:primera|segunda|tercera|cuarta|quinta)\s+(?:actividad|fase)'
OrdinalMatches(s) ==
    LET sl == Lower(s)
        tail == [w \in 0..Len(s) |->
                    IF SkipSpace(s, w) > w
                    THEN WordEnd(phase_words, sl, SkipSpace(s, w)) ELSE -1]
        ends == [i \in 0..Len(s) |->
                    LET f == FirstWord(ordinal_words, sl, i, tail)
                    IN  IF f = << >> THEN -1 ELSE f[2]]
    IN  MatchesAt(OffsetsOf(sl, {ordinal_words[k][1] : k \in 1..Len(ordinal_words)}), ends)

\* r'(?:inicio|desarrollo|cierre)\s*:'
MomentMatches(s) ==
    LET sl == Lower(s)
        tail == [w \in 0..Len(s) |->
                    IF LitAt(<<":">>, s, SkipSpace(s, w)) THEN SkipSpace(s, w) + 1 ELSE -1]
        ends == [i \in 0..Len(s) |->
                    LET f == FirstWord(moment_words, sl, i, tail)
                    IN  IF f = << >> THEN -1 ELSE f[2]]
    IN  MatchesAt(OffsetsOf(sl, {moment_words[k][1] : k \in 1..Len(moment_words)}), ends)

\* r'(?:^|\n)\s*(?:paso|etapa)\s+\d+'
StepMatches(s) ==
    LET sl == Lower(s)
        tail == [w \in 0..Len(s) |->
                    LET d == SkipSpace(s, w)
                    IN  IF d > w /\ SkipDigits(s, d) > d THEN SkipDigits(s, d) ELSE -1]
        ends == [i \in 0..Len(s) |->
                    LET f == FirstWord(step_words, sl, SkipSpace(s, i), tail)
                    IN  IF f = << >> THEN -1 ELSE f[2]]
    IN  MatchesAt(LineStarts(s), ends)

\* The hits of the four patterns, added.
ActivityHits(s) ==
    Len(FindAll(TaskMatches(s), 0))
    + Len(FindAll(OrdinalMatches(s), 0))
    + Len(FindAll(MomentMatches(s), 0))
    + Len(FindAll(StepMatches(s), 0))

\* The counter without its two tests for an empty and a blank text:
\* max(total_count, 1) for every text.
CountWithFloorAlways(activities_text) ==
    IF ActivityHits(activities_text) > 1 THEN ActivityHits(activities_text) ELSE 1

\* The counter without its floor: total_count for every text.
CountWithoutFloor(activities_text) == ActivityHits(activities_text)

_count_activities(activities_text) ==
    IF activities_text = << >> THEN 0
    ELSE LET s == activities_text
             total_count == ActivityHits(s)
         IN  IF Strip(s) # << >>
             THEN (IF total_count > 1 THEN total_count ELSE 1)
             ELSE 0

resource_words ==
    << <<"l","i","b","r","o">>,
       <<"t","e","x","t","o">>,
       <<"m","a","t","e","r","i","a","l">>,
       <<"r","e","c","u","r","s","o">>,
       <<"h","e","r","r","a","m","i","e","n","t","a">> >>

\* \s*:?\s*(.+?)(?=\n|$) from offset w: the offset where the group starts,
\* or -1.  The engine prefers the longest first run of whitespace, then to
\* take the colon, then the longest second run, and gives back in the
\* reverse order until the group can start.
ColonGroupStart(s, w) ==
    LET r1 == SkipSpace(s, w)
        colon == LitAt(<<":">>, s, r1)
        past == IF colon THEN {g \in (r1 + 1)..SkipSpace(s, r1 + 1) : CanOpenGroup(s, g)} ELSE {}
        before == {g \in w..r1 : CanOpenGroup(s, g)}
    IN  IF past # {} THEN Max(past)
        ELSE IF before # {} THEN Max(before) ELSE -1

\* r'(?:libro|texto|material|recurso|herramienta)\s*:?\s*(.+?)(?=\n|$)'
NamedMatches(s) ==
    LET sl == Lower(s)
        tail == [w \in 0..Len(s) |-> ColonGroupStart(s, w)]
        at(i) == LET f == FirstWord(resource_words, sl, i, tail)
                 IN  IF f = << >> THEN [start |-> i, group |-> -1, end |-> -1]
                     ELSE [start |-> i, group |-> f[2], end |-> LineEnd(s, f[2])]
    IN  {m \in {at(i) : i \in OffsetsOf(sl, {resource_words[k][1] : k \in 1..Len(resource_words)})} :
            m.group # -1}

MaxResources == 10
MinResourceLen == 3

\* The resources the two patterns give, in the order of the patterns and,
\* for one pattern, of the text.
AllResources(s) ==
    Groups(s, FindAll(ItemMatches(s), 0), MinResourceLen)
    \o Groups(s, FindAll(NamedMatches(s), 0), MinResourceLen)

\* The extractor without the slice [:10].
ResourcesUncapped(resources_text) == AllResources(resources_text)

_extract_resources(resources_text) ==
    IF resources_text = << >> THEN << >>
    ELSE LET s == resources_text
             resources == AllResources(s)
         IN  Slice(resources, 0, MaxResources)

\* int() of the decimal digits s[i:d]
RECURSIVE DecimalValue(_, _, _)
DecimalValue(s, i, d) ==
    IF d <= i THEN 0
    ELSE 10 * DecimalValue(s, i, d - 1)
         + (CHOOSE v \in 0..9 : <<"0","1","2","3","4","5","6","7","8","9">>[v + 1] = s[d])

\* The units of the three time patterns, each alternative with its optional
\* last character taken first; for each pattern, whether the pattern's text
\* contains 'hora' or 'hr'.
time_patterns ==
    << [units |-> << <<"m","i","n","u","t","o","s">>,
                  <<"m","i","n","u","t","o">>,
                  <<"m","i","n",".">>,
                  <<"m","i","n">> >>,
        hours |-> FALSE],
       [units |-> << <<"h","o","r","a","s">>,
                  <<"h","o","r","a">>,
                  <<"h","r",".">>,
                  <<"h","r">> >>,
        hours |-> TRUE],
       [units |-> << <<"h","r","s",".">>,
                  <<"h","r","s">>,
                  <<"h","r",".">>,
                  <<"h","r">> >>,
        hours |-> TRUE] >>

MinutesPerHour == 60

\* r'(\d+)\s*(?:unit|...)' under re.IGNORECASE
TimeMatches(units, s) ==
    LET sl == Lower(s)
        ends == [i \in 0..Len(s) |->
                    WordEnd(units, sl, SkipSpace(s, SkipDigits(s, i)))]
    IN  MatchesAt(OffsetsOf(s, Digits), ends)

RECURSIVE SumSeq(_)
SumSeq(q) == IF q = << >> THEN 0 ELSE q[1] + SumSeq(Tail(q))

NoDistribution == [k \in {} |-> 0]

_extract_time_info(time_text) ==
    IF time_text = << >>
    THEN [total_minutes |-> 0, activities_with_time |-> 0, time_distribution |-> NoDistribution]
    ELSE LET s == time_text
             found == [p \in 1..Len(time_patterns) |-> FindAll(TimeMatches(time_patterns[p].units, s), 0)]
             minutes(p, m) == DecimalValue(s, m.start, SkipDigits(s, m.start))
                              * (IF time_patterns[p].hours THEN MinutesPerHour ELSE 1)
             total(p) == SumSeq([j \in 1..Len(found[p]) |-> minutes(p, found[p][j])])
         IN  [total_minutes |-> SumSeq([p \in 1..Len(time_patterns) |-> total(p)]),
              activities_with_time |-> SumSeq([p \in 1..Len(time_patterns) |-> Len(found[p])]),
              time_distribution |-> NoDistribution]

(***************************************************************************)
(* Python floats (IEEE 754 binary64, round to nearest, ties to even), for  *)
(* the non-negative values the scorer computes.  A float is m * 2^e with   *)
(* m a natural number of at most MantissaBits bits.  m is written in base  *)
(* 2^24, least significant limb first, without leading zero limbs          *)
(* (<< >> is 0), so that no intermediate value leaves the 32-bit integers. *)
(***************************************************************************)

MantissaBits == 53

LimbBits == 24
Base == 2^LimbBits

RECURSIVE BigNorm(_)
BigNorm(n) ==
    IF n # << >> /\ n[Len(n)] = 0 THEN BigNorm(SubSeq(n, 1, Len(n) - 1)) ELSE n

\* n * k + carry, for a natural number k < 128.
RECURSIVE BigTimes(_, _, _)
BigTimes(n, k, carry) ==
    IF n = << >> THEN (IF carry = 0 THEN << >> ELSE <<carry>>)
    ELSE LET t == Head(n) * k + carry
         IN  <<t % Base>> \o BigTimes(Tail(n), k, t \div Base)

\* a + b + carry
RECURSIVE BigAdd(_, _, _)
BigAdd(a, b, carry) ==
    IF a = << >> /\ b = << >> THEN (IF carry = 0 THEN << >> ELSE <<carry>>)
    ELSE LET x == IF a = << >> THEN 0 ELSE Head(a)
             y == IF b = << >> THEN 0 ELSE Head(b)
             t == x + y + carry
         IN  <<t % Base>> \o BigAdd(IF a = << >> THEN a ELSE Tail(a),
                                    IF b = << >> THEN b ELSE Tail(b),
                                    t \div Base)

\* The number of bits of n.
BigBitLen(n) ==
    IF n = << >> THEN 0
    ELSE (Len(n) - 1) * LimbBits
         + (CHOOSE k \in 1..LimbBits : 2^(k - 1) <= n[Len(n)] /\ n[Len(n)] < 2^k)

\* Bit i of n (bit 0 is the least significant).
BigBit(n, i) ==
    IF i \div LimbBits >= Len(n) THEN 0
    ELSE (n[(i \div LimbBits) + 1] \div 2^(i % LimbBits)) % 2

\* n mod 2^k = 0
BigLowZero(n, k) ==
    /\ \A j \in 1..Len(n) : j <= k \div LimbBits => n[j] = 0
    /\ (k \div LimbBits < Len(n) => n[(k \div LimbBits) + 1] % 2^(k % LimbBits) = 0)

\* n div 2^k
BigShr(n, k) ==
    LET q == k \div LimbBits
        r == k % LimbBits
        m == SubSeq(n, q + 1, Len(n))
    IN  BigNorm([j \in 1..Len(m) |->
            (m[j] \div 2^r)
            + (IF j < Len(m) THEN (m[j + 1] % 2^r) * 2^(LimbBits - r) ELSE 0)])

\* n * 2^k
BigShl(n, k) ==
    LET q == k \div LimbBits
        r == k % LimbBits
    IN  BigNorm([j \in 1..q |-> 0] \o
            [j \in 1..(Len(n) + 1) |->
                (IF j <= Len(n) THEN (n[j] % 2^(LimbBits - r)) * 2^r ELSE 0)
                + (IF j > 1 THEN n[j - 1] \div 2^(LimbBits - r) ELSE 0)])

\* n as an int, for n < 2^24.
BigToNat(n) == IF n = << >> THEN 0 ELSE n[1]

\* The float nearest to the exact value, ties to even.  The exact value is
\* m * 2^e when inexact is FALSE, and lies strictly between m * 2^e and
\* (m + 1) * 2^e when inexact is TRUE (m then has more than MantissaBits bits).
RoundFloat(m, e, inexact) ==
    LET drop == BigBitLen(m) - MantissaBits
    IN  IF drop <= 0 THEN [m |-> m, e |-> e]
        ELSE LET keep == BigShr(m, drop)
                 guard == BigBit(m, drop - 1)
                 rest == ~BigLowZero(m, drop - 1) \/ inexact
                 up == guard = 1 /\ (rest \/ BigBit(keep, 0) = 1)
                 r == IF up THEN BigAdd(keep, <<1>>, 0) ELSE keep
             IN  \* a carry out of the top bit leaves 1 followed by zeros
                 IF BigBitLen(r) > MantissaBits
                 THEN [m |-> BigShr(r, 1), e |-> e + drop + 1]
                 ELSE [m |-> r, e |-> e + drop]

\* a / d of two small ints (0 <= a, 0 < d < 128): Python's true division,
\* correctly rounded.  The quotient is taken to three limbs after the point.
FloatDiv(a, d) ==
    LET r0 == a % d
        f1 == (r0 * Base) \div d
        r1 == (r0 * Base) % d
        f2 == (r1 * Base) \div d
        r2 == (r1 * Base) % d
        f3 == (r2 * Base) \div d
        r3 == (r2 * Base) % d
    IN  RoundFloat(BigNorm(<<f3, f2, f1, a \div d>>), -(3 * LimbBits), r3 # 0)

\* x * k, for a float x and the int k < 128 (converted exactly).
FloatTimesInt(x, k) == RoundFloat(BigNorm(BigTimes(x.m, k, 0)), x.e, FALSE)

\* x + y
FloatAdd(x, y) ==
    LET e == IF x.e < y.e THEN x.e ELSE y.e
    IN  RoundFloat(BigNorm(BigAdd(BigShl(x.m, x.e - e), BigShl(y.m, y.e - e), 0)),
                   e, FALSE)

\* int(x): the integer part.
FloatToInt(x) ==
    IF x.e >= 0 THEN BigToNat(BigShl(x.m, x.e)) ELSE BigToNat(BigShr(x.m, -x.e))

(***************************************************************************)
(* _calculate_completeness_score                                           *)
(***************************************************************************)

essential_sections == <<"objetivos", "contenidos", "actividades">>
recommended_sections == <<"evaluacion", "recursos", "tiempo">>

\* The count with the test of the span left out.
CountFoundPresent(names, secs) ==
    Cardinality({i \in 1..Len(names) : names[i] \in DOMAIN secs})

\* sum(1 for section in names if section in sections and sections[section].strip())
CountFound(names, secs) ==
    Cardinality({i \in 1..Len(names) :
        names[i] \in DOMAIN secs /\ Strip(secs[names[i]]) # << >>})

\* The score with the recommended categories left out.
ScoreOfEssentialAlone(secs) ==
    FloatToInt(FloatTimesInt(FloatDiv(CountFound(essential_sections, secs),
                                      Len(essential_sections)), 70))

_calculate_completeness_score(secs) ==
    LET essential_found == CountFound(essential_sections, secs)
        recommended_found == CountFound(recommended_sections, secs)
        essential_score ==
            FloatTimesInt(FloatDiv(essential_found, Len(essential_sections)), 70)
        recommended_score ==
            FloatTimesInt(FloatDiv(recommended_found, Len(recommended_sections)), 30)
    IN  FloatToInt(FloatAdd(essential_score, recommended_score))

(***************************************************************************)
(* The texts the calls are applied to: up to MaxPieces pieces, one after   *)
(* the other.                                                              *)
(***************************************************************************)
(* analyze_lesson_plan_structure                                           *)
(***************************************************************************)

\* len(s.split(' ')): one more than the number of spaces, 1 for the empty
\* string.
WordCountSplitOnSpace(s) ==
    Cardinality({i \in 1..Len(s) : s[i] = " "}) + 1

\* len(s.split()): the number of maximal runs of characters that are not
\* whitespace.
WordCount(s) ==
    Cardinality({i \in 0..(Len(s) - 1) :
                    ~IsSpace(s[i + 1]) /\ (i = 0 \/ IsSpace(s[i]))})

PageTag == <<"-","-","-"," ","P","á","g","i","n","a">>

\* s.count(lit): the occurrences of lit in s that do not overlap, from the
\* left.
Count(s, lit) ==
    Len(FindAll(MatchesAt(OffsetsOf(s, {lit[1]}),
                          [i \in 0..Len(s) |-> IF LitAt(lit, s, i) THEN i + Len(lit) ELSE -1]), 0))

\* secs.get(name, '')
Get(secs, name) == IF name \in DOMAIN secs THEN secs[name] ELSE << >>

\* sorted(secs.keys()): the keys in alphabetical order.
KeysSorted(secs) ==
    SelectSeq(<<"actividades", "contenidos", "evaluacion", "objetivos", "recursos", "tiempo">>,
              LAMBDA c : c \in DOMAIN secs)

\* list(secs.keys()): the keys in the order of insertion, which is the
\* order of the catalog.
Keys(secs) == SelectSeq(Categories, LAMBDA c : c \in DOMAIN secs)

_get_basic_structure_analysis ==
    [total_words |-> 0,
     total_pages |-> 0,
     sections_found |-> << >>,
     sections_content |-> [c \in {} |-> << >>],
     grade_level_indicators |-> << >>,
     learning_objectives |-> << >>,
     activities_count |-> 0,
     assessment_methods |-> << >>,
     resources_list |-> << >>,
     time_allocation |-> [total_minutes |-> 0, activities_with_time |-> 0],
     completeness_score |-> 0]

\* The calls inside the try block, in the order of evaluation.
Steps == {"clean", "sections", "grade", "objectives", "activities",
          "assessment", "resources", "time", "score"}

\* The body of the try block, when no step raises.
StructureAnalysis(t) ==
    LET cleaned_text == _clean_text(t)
        secs == _extract_sections(cleaned_text)
    IN  [total_words |-> WordCount(cleaned_text),
         total_pages |-> Count(t, PageTag),
         sections_found |-> Keys(secs),
         sections_content |-> secs,
         grade_level_indicators |-> _detect_grade_level(cleaned_text),
         learning_objectives |-> _extract_learning_objectives(Get(secs, "objetivos")),
         activities_count |-> _count_activities(Get(secs, "actividades")),
         assessment_methods |-> _extract_assessment_methods(Get(secs, "evaluacion")),
         resources_list |-> _extract_resources(Get(secs, "recursos")),
         time_allocation |-> _extract_time_info(Get(secs, "tiempo") \o Get(secs, "actividades")),
         completeness_score |-> _calculate_completeness_score(secs)]

\* The call with no except clause that returns the basic result: what the
\* steps that ran before the one that raised have computed comes back.
AnalyzeUnguarded(t, raising) == StructureAnalysis(t)

\* Every step is inside the try block, and the handler of Exception
\* returns the basic result whichever step raised.
analyze_lesson_plan_structure(t, raising) ==
    IF raising \in Steps THEN _get_basic_structure_analysis ELSE StructureAnalysis(t)

(***************************************************************************)

MaxPieces == 3

RECURSIVE Concat(_)
Concat(ps) == IF ps = << >> THEN << >> ELSE Head(ps) \o Concat(Tail(ps))

TextsOf(Pieces) ==
    {Concat(ps) : ps \in UNION {[1..n -> Pieces] : n \in 0..MaxPieces}}

\* What the text extractor puts before a page ("--- Página 1 ---\n"), parts
\* of it, and page text.
CleanPieces ==
    { <<"a">>, <<"B", "c">>, <<" ">>, <<"\n">>, <<"\t", " ">>,
      <<"-","-","-"," ","P","á","g","i","n","a"," ","1"," ","-","-","-">>,
      <<"-","-","-"," ","P","á","g","i","n","a"," ","1","2">>,
      <<" ","-","-","-">> }

CleanTexts == TextsOf(CleanPieces)

(***************************************************************************)
(* The documents analysed: up to MaxBlocks blocks, each a heading (or a    *)
(* page marker) followed by filler text, and one full plan.                *)
(***************************************************************************)

MaxBlocks == 2

DocHeadings ==
    { \* the first pattern of objetivos
      <<"O","b","j","e","t","i","v","o","s"," ","g","e","n","e","r",
       "a","l","e","s"," ">>,
      \* the fifth pattern of objetivos
      <<"l","o","g","r","o","s"," ","e","s","p","e","r","a","d","o",
       "s"," ">>,
      \* the fifth pattern of actividades
      <<"M","e","t","o","d","o","l","o","g","í","a",":"," ","a","u",
       "l","a"," ">>,
      \* the first pattern of contenidos
      <<"C","o","n","t","e","n","i","d","o","s"," ">>,
      \* evaluacion, recursos and tiempo
      <<"r","ú","b","r","i","c","a","s",","," ","h","e","r","r","a",
       "m","i","e","n","t","a","s"," ","y"," ","c","r","o","n","o","g","r","a","m","a"," ">>,
      \* what extract_text_from_pdf puts before a page
      <<"-","-","-"," ","P","á","g","i","n","a"," ","1"," ","-","-",
       "-","\n">> }

\* Filler of n characters that ends a word.
Filler(n) == IF n = 0 THEN << >> ELSE [i \in 1..(n - 1) |-> "x"] \o <<" ">>

\* The gaps put the next heading less than Lookahead characters after the
\* start of the heading before, exactly Lookahead characters after it (the
\* fifth pattern of objetivos), or more.
DocGaps == {0, 33}

\* A section longer than MaxSpan.
LongBlock == <<"C","o","n","t","e","n","i","d","o","s"," ">> \o Filler(MaxSpan)

DocBlocks == {h \o Filler(g) : h \in DocHeadings, g \in DocGaps} \cup {LongBlock}

\* A plan with the six categories, as extract_text_from_pdf returns it.
FullPlan ==
    <<"-","-","-"," ","P","á","g","i","n","a"," ","1"," ","-","-","-","\n">>
    \o <<"O","b","j","e","t","i","v","o","s"," ","g","e","n","e","r","a","l","e","s"," ">>
    \o Filler(40)
    \o <<"C","o","n","t","e","n","i","d","o","s"," ">> \o Filler(50)
    \o <<"M","e","t","o","d","o","l","o","g","í","a",":"," ","a","u","l","a"," ">>
    \o Filler(60)
    \o <<"r","ú","b","r","i","c","a","s",","," ","h","e","r","r","a",
         "m","i","e","n","t","a","s"," ","y"," ","c","r","o","n","o","g","r","a","m","a">>

DocTexts ==
    {Concat(bs) : bs \in UNION {[1..n -> DocBlocks] : n \in 0..MaxBlocks}} \cup {FullPlan}

\* Scenario A of the spec.
ScenarioA ==
    <<"O","b","j","e","t","i","v","o","s",":"," ","1","."," ","I",
      "d","e","n","t","i","f","i","c","a","r"," ","l","a","s"," ",
      "p","a","r","t","e","s"," ","d","e"," ","u","n","a"," ","c",
      "é","l","u","l","a","."," ","A","c","t","i","v","i","d","a",
      "d","e","s",":"," ","I","n","i","c","i","o",":"," ","p","r",
      "e","s","e","n","t","a","c","i","ó","n"," ","(","1","0"," ",
      "m","i","n","u","t","o","s",")","."," ","D","e","s","a","r",
      "r","o","l","l","o",":"," ","t","r","a","b","a","j","o"," ",
      "e","n"," ","e","q","u","i","p","o"," ","(","2","0"," ","m",
      "i","n","u","t","o","s",")",".">>

\* Scenario C of the spec.
ScenarioC ==
    <<"E","v","a","l","u","a","c","i","ó","n",":"," ","r","ú","b",
      "r","i","c","a"," ","y"," ","l","i","s","t","a"," ","d","e",
      " ","c","o","t","e","j","o">>

\* Scenario B of the spec: the empty text and texts of whitespace only.
BlankTexts == { << >>, <<" ">>, <<"\n", " ", "\t">> }

\* Texts with '--- Página' outside a page marker.
TagTexts ==
    { <<"-","-","-"," ","P","á","g","i","n","a"," ","s","i","g","u",
      "i","e","n","t","e">>,
      <<"-","-","-"," ","P","á","g","i","n","a"," ","1"," ","-","-",
      "-","\n","h","o","l","a"," ","-","-","-"," ","P","á","g","i",
      "n","a">> }

\* Texts that name grades, before a heading and after one.
GradeTexts ==
    { <<"P","l","a","n"," ","d","e"," ","5","°"," ","G","R","A","D","O",
        ","," ","Q","u","i","n","t","o",".","\n","O","b","j","e","t","i",
        "v","o","s"," ","g","e","n","e","r","a","l","e","s"," ","s","u",
        "m","a","r">>,
      <<"C","o","n","t","e","n","i","d","o","s"," ","d","e"," ","S","e",
        "c","u","n","d","a","r","i","a",":"," ","e","l"," ","j","a","r",
        "d","í","n">> }

\* A plan as a PDF page gives it: headings on lines of their own, followed
\* by numbered and bulleted items, one on each line.
ListTexts ==
    { <<"O","b","j","e","t","i","v","o","s"," ","g","e","n","e","r","a","l","e","s","\n",
        "1","."," ","I","d","e","n","t","i","f","i","c","a","r"," ","l","a","s"," ",
        "p","a","r","t","e","s"," ","d","e"," ","l","a"," ","c","é","l","u","l","a","\n",
        "-"," ","q","u","e"," ","l","o","s"," ","e","s","t","u","d","i","a","n","t","e","s"," ",
        "s","u","m","e","n","\n",
        "R","e","c","u","r","s","o","s"," ","d","i","d","á","c","t","i","c","o","s","\n",
        "-"," ","c","u","a","d","e","r","n","o"," ","d","e"," ","t","r","a","b","a","j","o","\n",
        "A","c","t","i","v","i","d","a","d","e","s"," ","d","e"," ","i","n","i","c","i","o","\n",
        "1","."," ","a","c","t","i","v","i","d","a","d"," ","d","e"," ","l","e","c","t","u","r","a","\n",
        "p","a","s","o"," ","2">> }

\* Texts with twenty U+0130 before a heading of nineteen characters and an
\* item.
DottedTexts ==
    { [i \in 1..20 |-> DottedI]
        \o <<" ","o","b","j","e","t","i","v","o","s"," ","g","e","n","e","r","a","l","e","s"," ",
             "1"," ","a","p","r","e","n","d","e","r"," ","a"," ","s","u","m","a","r"," ",
             "f","r","a","c","c","i","o","n","e","s">>,
      [i \in 1..20 |-> DottedI]
        \o <<" ","r","e","c","u","r","s","o","s"," ","d","i","d","á","c","t","i","c","o","s"," ",
             "-"," ","c","u","a","d","e","r","n","o"," ","d","e"," ","t","r","a","b","a","j","o">> }

\* The texts analyze_lesson_plan_structure is called on.
PlanTexts ==
    DocTexts \cup {ScenarioA, ScenarioC} \cup BlankTexts \cup TagTexts \cup GradeTexts
    \cup ListTexts \cup DottedTexts

Unset == << >>

NoSections == [c \in {} |-> << >>]

NoSpans == [c \in {} |-> 0]

NoResult == [none |-> TRUE]

(***************************************************************************)
(* Calls of _clean_text.                                                   *)
(***************************************************************************)

InitClean ==
    /\ op = "clean"
    /\ pc = "call"
    /\ text \in CleanTexts
    /\ fault = "none"
    /\ cleaned = Unset
    /\ sections = NoSections
    /\ spans = NoSpans
    /\ score = 0
    /\ result = NoResult
    /\ files = << >>
    /\ analyses = << >>
    /\ out = Unset
    /\ processors = << >>
    /\ calls = << >>

CallCleanText ==
    /\ op = "clean"
    /\ pc = "call"
    /\ cleaned' = _clean_text(text)
    /\ pc' = "done"
    /\ UNCHANGED <<op, text, fault, sections, spans, score, result, files, analyses, out, processors, calls>>

NextClean == CallCleanText

SpecClean == InitClean /\ [][NextClean]_vars

(***************************************************************************)
(* Calls of _calculate_completeness_score on sections maps: any subset of  *)
(* the six categories, each with a blank or a non-blank span.              *)
(***************************************************************************)

ScoreSpans == { << >>, <<" ">>, <<"x">>, <<"Y", " ">> }

ScoreMaps == UNION {[D -> ScoreSpans] : D \in SUBSET CategorySet}

InitScore ==
    /\ op = "score"
    /\ pc = "call"
    /\ text = << >>
    /\ fault = "none"
    /\ cleaned = Unset
    /\ sections \in ScoreMaps
    /\ spans = NoSpans
    /\ score = 0
    /\ result = NoResult
    /\ files = << >>
    /\ analyses = << >>
    /\ out = Unset
    /\ processors = << >>
    /\ calls = << >>

CallScore ==
    /\ op = "score"
    /\ pc = "call"
    /\ score' = _calculate_completeness_score(sections)
    /\ pc' = "done"
    /\ UNCHANGED <<op, text, fault, cleaned, sections, spans, result, files, analyses, out, processors, calls>>

NextScore == CallScore

SpecScore == InitScore /\ [][NextScore]_vars

(***************************************************************************)
(* Calls of _extract_sections.                                             *)
(***************************************************************************)

InitSections ==
    /\ op = "sections"
    /\ pc = "call"
    /\ text \in DocTexts
    /\ fault = "none"
    /\ cleaned = Unset
    /\ sections = NoSections
    /\ spans = NoSpans
    /\ score = 0
    /\ result = NoResult
    /\ files = << >>
    /\ analyses = << >>
    /\ out = Unset
    /\ processors = << >>
    /\ calls = << >>

CallExtractSections ==
    /\ op = "sections"
    /\ pc = "call"
    /\ sections' = _extract_sections(text)
    /\ spans' = SectionSpans(text)
    /\ pc' = "done"
    /\ UNCHANGED <<op, text, fault, cleaned, score, result, files, analyses, out, processors, calls>>

NextLocate == CallExtractSections

SpecSections == InitSections /\ [][NextLocate]_vars

(***************************************************************************)
(* Calls of analyze_lesson_plan_structure: on a text, with no step raising *)
(* or with one of the steps raising (re.sub raises TypeError when the text *)
(* is not a str, int() raises ValueError on too many digits, any step can  *)
(* raise MemoryError).                                                     *)
(***************************************************************************)

Init ==
    /\ op = "analyze"
    /\ pc = "call"
    /\ text \in PlanTexts
    /\ fault \in Steps \cup {"none"}
    /\ cleaned = Unset
    /\ sections = NoSections
    /\ spans = NoSpans
    /\ score = 0
    /\ result = NoResult
    /\ files = << >>
    /\ analyses = << >>
    /\ out = Unset
    /\ processors = << >>
    /\ calls = << >>

\* The call returns: pc never records a raised exception, the except
\* clause returns a value.
Analyze ==
    /\ op = "analyze"
    /\ pc = "call"
    /\ result' = analyze_lesson_plan_structure(text, fault)
    /\ pc' = "done"
    /\ UNCHANGED <<op, text, fault, cleaned, sections, spans, score, files, analyses, out, processors, calls>>

Next == Analyze

Spec == Init /\ [][Next]_vars

(***************************************************************************)
(* Calls of the six extractors, each on texts made of up to MaxPieces      *)
(* pieces: lines with items, lead words, units, keywords, and blanks.      *)
(***************************************************************************)

ExtractPieces ==
    [grade |->
        { <<"P","r","i","m","a","r","i","a"," ">>,
          <<"5","°"," ","g","r","a","d","o">>,
          <<" ">>,
          <<"B","A","C","H","I","L","L","E","R","A","T","O">>,
          <<"o","n","c","e">> },
     objectives |->
        { <<"-"," ","s","u","m","a","r"," ","f","r","a","c","c","i","o","n",
            "e","s","\n","*"," ","r","e","s","t","a","r"," ","f","r","a","c",
            "c","i","o","n","e","s","\n","3"," ","m","u","l","t","i","p","l",
            "i","c","a","r"," ","n","ú","m","e","r","o","s","\n">>,
          <<"1","."," ","l","e","e","r","\n">>,
          <<"q","u","e"," ","e","l"," ","e","s","t","u","d","i","a","n","t",
            "e"," ","c","o","m","p","r","e","n","d","a","\n","A","n","a","l",
            "i","z","a","r"," ","l","o","s"," ","d","a","t","o","s"," ","d",
            "a","d","o","s","\n","l","o","s"," ","e","s","t","u","d","i","a",
            "n","t","e","s"," ","s","u","m","a","n"," ","m","u","y"," ","b",
            "i","e","n","\n">>,
          <<"I","d","e","n","t","i","f","i","c","a","r"," ","l","a","s"," ",
            "p","a","r","t","e","s","\n">>,
          <<" ">> },
     activities |->
        { <<"x">>,
          <<" ">>,
          <<"\n">>,
          <<"I","n","i","c","i","o",":"," ","j","u","e","g","o","\n">>,
          <<"-"," ","A","c","t","i","v","i","d","a","d"," ","1","\n">>,
          <<"p","r","i","m","e","r","a"," ","f","a","s","e"," ">>,
          <<"p","a","s","o"," ","2","\n">> },
     assessment |->
        { <<"R","ú","b","r","i","c","a">>,
          <<" ","y"," ">>,
          <<"l","i","s","t","a"," ","d","e"," ","c","o","t","e","j","o">>,
          <<"E","X","A","M","E","N">>,
          <<"r","u","b","r","o">> },
     resources |->
        { <<"-"," ","l","i","b","r","o",":"," ","g","u","í","a","\n","*"," ",
            "t","e","x","t","o",":"," ","m","a","p","a","\n","2"," ","r","e",
            "c","u","r","s","o",":"," ","v","i","d","e","o","\n">>,
          <<"-"," ","a","b","c","\n">>,
          <<"m","a","t","e","r","i","a","l"," ","d","e"," ","a","p","o","y",
            "o","\n">>,
          <<" ">>,
          <<"r","e","c","u","r","s","o",":","\n">> },
     time |->
        { <<"1","0"," ","m","i","n">>,
          <<" ">>,
          <<"2"," ","h","r">>,
          <<"1"," ","h","o","r","a">>,
          <<"3","0"," ","m","i","n","u","t","o","s",".">>,
          <<"y"," ","5">> } ]

InitExtract ==
    /\ op \in DOMAIN ExtractPieces
    /\ pc = "call"
    /\ text \in TextsOf(ExtractPieces[op])
    /\ fault = "none"
    /\ cleaned = Unset
    /\ sections = NoSections
    /\ spans = NoSpans
    /\ score = 0
    /\ result = NoResult
    /\ files = << >>
    /\ analyses = << >>
    /\ out = Unset
    /\ processors = << >>
    /\ calls = << >>

CallDetectGradeLevel ==
    /\ op = "grade"
    /\ pc = "call"
    /\ out' = _detect_grade_level(text)
    /\ pc' = "done"
    /\ UNCHANGED <<op, text, fault, cleaned, sections, spans, score, result, files, analyses,
                   processors, calls>>

CallExtractLearningObjectives ==
    /\ op = "objectives"
    /\ pc = "call"
    /\ out' = _extract_learning_objectives(text)
    /\ pc' = "done"
    /\ UNCHANGED <<op, text, fault, cleaned, sections, spans, score, result, files, analyses,
                   processors, calls>>

CallCountActivities ==
    /\ op = "activities"
    /\ pc = "call"
    /\ out' = _count_activities(text)
    /\ pc' = "done"
    /\ UNCHANGED <<op, text, fault, cleaned, sections, spans, score, result, files, analyses,
                   processors, calls>>

CallExtractAssessmentMethods ==
    /\ op = "assessment"
    /\ pc = "call"
    /\ out' = _extract_assessment_methods(text)
    /\ pc' = "done"
    /\ UNCHANGED <<op, text, fault, cleaned, sections, spans, score, result, files, analyses,
                   processors, calls>>

CallExtractResources ==
    /\ op = "resources"
    /\ pc = "call"
    /\ out' = _extract_resources(text)
    /\ pc' = "done"
    /\ UNCHANGED <<op, text, fault, cleaned, sections, spans, score, result, files, analyses,
                   processors, calls>>

CallExtractTimeInfo ==
    /\ op = "time"
    /\ pc = "call"
    /\ out' = _extract_time_info(text)
    /\ pc' = "done"
    /\ UNCHANGED <<op, text, fault, cleaned, sections, spans, score, result, files, analyses,
                   processors, calls>>

NextExtract ==
    \/ CallDetectGradeLevel
    \/ CallExtractLearningObjectives
    \/ CallCountActivities
    \/ CallExtractAssessmentMethods
    \/ CallExtractResources
    \/ CallExtractTimeInfo

SpecExtract == InitExtract /\ [][NextExtract]_vars

\* str(n) for n >= 0
RECURSIVE Str(_)
Str(n) ==
    LET d == <<"0","1","2","3","4","5","6","7","8","9">>[(n % 10) + 1]
    IN  IF n < 10 THEN <<d>> ELSE Str(n \div 10) \o <<d>>

\* sep.join(parts)
RECURSIVE Join(_, _)
Join(sep, parts) ==
    IF parts = << >> THEN << >>
    ELSE IF Len(parts) = 1 THEN parts[1]
    ELSE parts[1] \o sep \o Join(sep, Tail(parts))

(***************************************************************************)
(* get_analysis_summary: the digest of a structure analysis, and calls of  *)
(* it on dicts with every field, with one field missing, and with none.    *)
(***************************************************************************)

\* The names of the categories as text.
SectionNameChars ==
    [objetivos |-> <<"o","b","j","e","t","i","v","o","s">>,
     contenidos |-> <<"c","o","n","t","e","n","i","d","o","s">>,
     actividades |-> <<"a","c","t","i","v","i","d","a","d","e","s">>,
     evaluacion |-> <<"e","v","a","l","u","a","c","i","o","n">>,
     recursos |-> <<"r","e","c","u","r","s","o","s">>,
     tiempo |-> <<"t","i","e","m","p","o">>]

\* The constant text of the lines.
SummaryText ==
    [header |-> <<"=","=","="," ","A","N","Á","L","I","S","I","S"," ","D","E"," ",
          "P","L","A","N","E","A","C","I","Ó","N"," ","(","P","D","F",")",
          " ","=","=","=">>,
     pages |-> <<"P","á","g","i","n","a","s"," ","a","n","a","l","i","z","a","d",
          "a","s",":"," ">>,
     words |-> <<"T","o","t","a","l"," ","d","e"," ","p","a","l","a","b","r","a",
          "s",":"," ">>,
     score |-> <<"P","u","n","t","u","a","c","i","ó","n"," ","d","e"," ","c","o",
          "m","p","l","e","t","i","t","u","d",":"," ">>,
     of100 |-> <<"/","1","0","0">>,
     sections |-> <<"S","e","c","c","i","o","n","e","s"," ","e","n","c","o","n","t",
          "r","a","d","a","s",":"," ">>,
     objectives |-> <<"O","b","j","e","t","i","v","o","s"," ","d","e"," ","a","p","r",
          "e","n","d","i","z","a","j","e"," ","d","e","t","e","c","t","a",
          "d","o","s",":"," ">>,
     activities |-> <<"A","c","t","i","v","i","d","a","d","e","s"," ","p","l","a","n",
          "i","f","i","c","a","d","a","s",":"," ">>,
     assessment |-> <<"M","é","t","o","d","o","s"," ","d","e"," ","e","v","a","l","u",
          "a","c","i","ó","n",":"," ">>,
     time |-> <<"T","i","e","m","p","o"," ","t","o","t","a","l"," ","e","s","t",
          "i","m","a","d","o",":"," ">>,
     minutes |-> <<" ","m","i","n","u","t","o","s">>]

SummaryObjectives == 3
ObjectiveWidth == 100

\* f"  {i}. {obj}...": the line with the whole objective.
ObjectiveLineWhole(i, obj) ==
    <<" ", " ">> \o Str(i) \o <<".", " ">> \o obj \o <<".", ".", ".">>

\* f"  {i}. {obj[:100]}..."
ObjectiveLine(i, obj) ==
    <<" ", " ">> \o Str(i) \o <<".", " ">> \o Slice(obj, 0, ObjectiveWidth) \o <<".", ".", ".">>

\* The list summary before the join.  d.get(f, default) is d[f] when d has
\* the key f.
SummaryLines(structure_analysis) ==
    LET d == structure_analysis
        sections_found == IF "sections_found" \in DOMAIN d THEN d.sections_found ELSE << >>
        objectives == IF "learning_objectives" \in DOMAIN d THEN d.learning_objectives ELSE << >>
        activities_count == IF "activities_count" \in DOMAIN d THEN d.activities_count ELSE 0
        assessment_methods == IF "assessment_methods" \in DOMAIN d THEN d.assessment_methods ELSE << >>
        time_info == IF "time_allocation" \in DOMAIN d THEN d.time_allocation ELSE [k \in {} |-> 0]
        total_minutes == IF "total_minutes" \in DOMAIN time_info THEN time_info.total_minutes ELSE 0
        shown == Slice(objectives, 0, SummaryObjectives)
    IN  << SummaryText.header,
           SummaryText.pages \o Str(IF "total_pages" \in DOMAIN d THEN d.total_pages ELSE 0),
           SummaryText.words \o Str(IF "total_words" \in DOMAIN d THEN d.total_words ELSE 0),
           SummaryText.score
               \o Str(IF "completeness_score" \in DOMAIN d THEN d.completeness_score ELSE 0)
               \o SummaryText.of100,
           << >> >>
        \o (IF sections_found # << >>
            THEN << SummaryText.sections
                    \o Join(<<",", " ">>, [j \in 1..Len(sections_found) |->
                                              SectionNameChars[sections_found[j]]]) >>
            ELSE << >>)
        \o (IF objectives # << >>
            THEN << SummaryText.objectives \o Str(Len(objectives)) >>
                 \o [i \in 1..Len(shown) |-> ObjectiveLine(i, shown[i])]
            ELSE << >>)
        \o (IF activities_count > 0
            THEN << SummaryText.activities \o Str(activities_count) >>
            ELSE << >>)
        \o (IF assessment_methods # << >>
            THEN << SummaryText.assessment \o Join(<<",", " ">>, assessment_methods) >>
            ELSE << >>)
        \o (IF total_minutes > 0
            THEN << SummaryText.time \o Str(total_minutes) \o SummaryText.minutes >>
            ELSE << >>)

get_analysis_summary(structure_analysis) == Join(<<"\n">>, SummaryLines(structure_analysis))

\* Objectives of 16, 120 and 100 characters.
ShortObjective == <<"s","u","m","a","r"," ","f","r","a","c","c","i","o","n","e","s">>
LongObjective == [i \in 1..120 |-> "y"]
WideObjective == [i \in 1..100 |-> "z"]

\* The values of the fields the digest reads.
SummaryValues ==
    [total_pages : {0, 2},
     total_words : {0, 12},
     completeness_score : {0, 46},
     sections_found : {<< >>, <<"objetivos", "tiempo">>},
     learning_objectives : {<< >>, <<WideObjective>>,
                            <<ShortObjective, LongObjective, WideObjective, ShortObjective>>},
     activities_count : {0, 3},
     assessment_methods : {<< >>, << <<"R","ú","b","r","i","c","a">>,
                                    <<"E","x","a","m","e","n">> >>},
     time_allocation : {[total_minutes |-> 0, activities_with_time |-> 0],
                        [activities_with_time |-> 0],
                        [total_minutes |-> 45, activities_with_time |-> 2,
                         time_distribution |-> NoDistribution]}]

SummaryFields ==
    {"total_pages", "total_words", "completeness_score", "sections_found",
     "learning_objectives", "activities_count", "assessment_methods", "time_allocation"}

\* The dicts get_analysis_summary is called on: every field present, one
\* field missing, no field at all; and results of
\* analyze_lesson_plan_structure, the basic one among them.
SummaryInputs ==
    {[f \in present |-> full[f]] :
        full \in SummaryValues,
        present \in {SummaryFields, {}} \cup {SummaryFields \ {f} : f \in SummaryFields}}
    \cup {analyze_lesson_plan_structure(t, raising) :
             t \in {ScenarioC, FullPlan}, raising \in {"none", "score"}}

InitSummary ==
    /\ op = "summary"
    /\ pc = "call"
    /\ text = << >>
    /\ fault = "none"
    /\ cleaned = Unset
    /\ sections = NoSections
    /\ spans = NoSpans
    /\ score = 0
    /\ result \in SummaryInputs
    /\ files = << >>
    /\ analyses = << >>
    /\ out = Unset
    /\ processors = << >>
    /\ calls = << >>

CallGetAnalysisSummary ==
    /\ op = "summary"
    /\ pc = "call"
    /\ out' = get_analysis_summary(result)
    /\ pc' = "done"
    /\ UNCHANGED <<op, text, fault, cleaned, sections, spans, score, result, files, analyses,
                   processors, calls>>

NextSummary == CallGetAnalysisSummary

SpecSummary == InitSummary /\ [][NextSummary]_vars

(***************************************************************************)
(* Sessions: instances of PDFProcessor are made, and                       *)
(* analyze_lesson_plan_structure is called on them, on any text and in any *)
(* order.                                                                  *)
(***************************************************************************)

MaxProcessors == 2
MaxCalls == 3

\* A plan with one section, and the text of a PDF without text.
SessionTexts == {ScenarioC, << >>}

SessionFaults == {"none", "score"}

\* PDFProcessor(): __init__ stores the two catalogs in the instance.
NewPDFProcessor ==
    [section_patterns |-> section_patterns, grade_indicators |-> grade_indicators]

\* A call that counts the pages of the calls before it with its own.
CallResultCarried(earlier, self, t, raising) ==
    [analyze_lesson_plan_structure(t, raising) EXCEPT !.total_pages = @ + Len(earlier)]

\* The value that comes back from the call number Len(earlier) + 1 of the
\* session, made on the instance self.  The methods read text and the
\* catalogs of self, which hold what __init__ stored, and keep nothing from
\* one call to the next.
CallResult(earlier, self, t, raising) == analyze_lesson_plan_structure(t, raising)

InitSession ==
    /\ op = "session"
    /\ pc = "idle"
    /\ text = << >>
    /\ fault = "none"
    /\ cleaned = Unset
    /\ sections = NoSections
    /\ spans = NoSpans
    /\ score = 0
    /\ result = NoResult
    /\ files = << >>
    /\ analyses = << >>
    /\ out = Unset
    /\ processors = << >>
    /\ calls = << >>

CreateProcessor ==
    /\ op = "session"
    /\ Len(processors) < MaxProcessors
    /\ processors' = Append(processors, NewPDFProcessor)
    /\ UNCHANGED <<op, pc, text, fault, cleaned, sections, spans, score, result, files,
                   analyses, out, calls>>

\* A call of analyze_lesson_plan_structure on the instance p: no method
\* assigns to an attribute of self.
AnalyzeOn(p, t, raising) ==
    /\ op = "session"
    /\ p \in 1..Len(processors)
    /\ Len(calls) < MaxCalls
    /\ calls' = Append(calls, [processor |-> p, text |-> t, fault |-> raising,
                               result |-> CallResult(calls, processors[p], t, raising)])
    /\ UNCHANGED <<op, pc, text, fault, cleaned, sections, spans, score, result, files,
                   analyses, out, processors>>

NextSession ==
    \/ CreateProcessor
    \/ \E p \in 1..MaxProcessors, t \in SessionTexts, raising \in SessionFaults :
           AnalyzeOn(p, t, raising)

SpecSession == InitSession /\ [][NextSession]_vars

(***************************************************************************)
(* Analyses interleaved on one instance of PDFProcessor: each call of      *)
(* analyze_lesson_plan_structure is a frame with its locals, and the       *)
(* frames advance one step at a time in any order.  The dict a call makes  *)
(* is an object with an identity.                                          *)
(***************************************************************************)

MaxFrames == 2

\* The dict literal of lines 122-133, from the locals of the call.
AnalysisDict(t, cleaned_text, secs) ==
    [total_words |-> WordCount(cleaned_text),
     total_pages |-> Count(t, PageTag),
     sections_found |-> Keys(secs),
     sections_content |-> secs,
     grade_level_indicators |-> _detect_grade_level(cleaned_text),
     learning_objectives |-> _extract_learning_objectives(Get(secs, "objetivos")),
     activities_count |-> _count_activities(Get(secs, "actividades")),
     assessment_methods |-> _extract_assessment_methods(Get(secs, "evaluacion")),
     resources_list |-> _extract_resources(Get(secs, "recursos")),
     time_allocation |-> _extract_time_info(Get(secs, "tiempo") \o Get(secs, "actividades"))]

\* structure_analysis['completeness_score'] = ...: the same dict with one
\* more key.
WithScore(structure_analysis, secs) ==
    [f \in DOMAIN structure_analysis \cup {"completeness_score"} |->
        IF f = "completeness_score" THEN _calculate_completeness_score(secs)
        ELSE structure_analysis[f]]

\* The identity of a dict that is kept in one place for every call that
\* degrades, and of a new dict otherwise.
SharedBasicObject(frames, basic) ==
    IF basic THEN 1 ELSE Max({1} \cup {frames[i].object : i \in 1..Len(frames)}) + 1

\* The identity of the dict a dict literal makes: one that no frame holds.
NewObject(frames, basic) ==
    Max({0} \cup {frames[i].object : i \in 1..Len(frames)}) + 1

NewFrame(t, raising) ==
    [text |-> t, fault |-> raising, pc |-> "clean", cleaned_text |-> Unset,
     sections |-> NoSections, object |-> 0, structure_analysis |-> NoResult,
     summary |-> Unset]

\* The handler of Exception: a new basic dict is returned.
Degrade(frames, k) ==
    [frames EXCEPT ![k].pc = "returned",
                   ![k].object = NewObject(frames, TRUE),
                   ![k].structure_analysis = _get_basic_structure_analysis]

InitThreads ==
    /\ op = "threads"
    /\ pc = "idle"
    /\ text = << >>
    /\ fault = "none"
    /\ cleaned = Unset
    /\ sections = NoSections
    /\ spans = NoSpans
    /\ score = 0
    /\ result = NoResult
    /\ files = << >>
    /\ analyses = << >>
    /\ out = Unset
    /\ processors = <<NewPDFProcessor>>
    /\ calls = << >>

StartAnalysis(t, raising) ==
    /\ op = "threads"
    /\ Len(calls) < MaxFrames
    /\ calls' = Append(calls, NewFrame(t, raising))
    /\ UNCHANGED <<op, pc, text, fault, cleaned, sections, spans, score, result, files,
                   analyses, out, processors>>

\* cleaned_text = self._clean_text(text)
StepClean(k) ==
    /\ op = "threads"
    /\ k \in 1..Len(calls)
    /\ calls[k].pc = "clean"
    /\ calls' = IF calls[k].fault = "clean" THEN Degrade(calls, k)
                ELSE [calls EXCEPT ![k].pc = "sections",
                                   ![k].cleaned_text = _clean_text(calls[k].text)]
    /\ UNCHANGED <<op, pc, text, fault, cleaned, sections, spans, score, result, files,
                   analyses, out, processors>>

\* sections = self._extract_sections(cleaned_text)
StepSections(k) ==
    /\ op = "threads"
    /\ k \in 1..Len(calls)
    /\ calls[k].pc = "sections"
    /\ calls' = IF calls[k].fault = "sections" THEN Degrade(calls, k)
                ELSE [calls EXCEPT ![k].pc = "build",
                                   ![k].sections = _extract_sections(calls[k].cleaned_text)]
    /\ UNCHANGED <<op, pc, text, fault, cleaned, sections, spans, score, result, files,
                   analyses, out, processors>>

\* structure_analysis = {...}
StepBuild(k) ==
    /\ op = "threads"
    /\ k \in 1..Len(calls)
    /\ calls[k].pc = "build"
    /\ calls' = IF calls[k].fault \in Steps \ {"clean", "sections", "score"}
                THEN Degrade(calls, k)
                ELSE [calls EXCEPT ![k].pc = "score",
                                   ![k].object = NewObject(calls, FALSE),
                                   ![k].structure_analysis =
                                       AnalysisDict(calls[k].text, calls[k].cleaned_text,
                                                    calls[k].sections)]
    /\ UNCHANGED <<op, pc, text, fault, cleaned, sections, spans, score, result, files,
                   analyses, out, processors>>

\* structure_analysis['completeness_score'] = ...; return structure_analysis
StepScore(k) ==
    /\ op = "threads"
    /\ k \in 1..Len(calls)
    /\ calls[k].pc = "score"
    /\ calls' = IF calls[k].fault = "score" THEN Degrade(calls, k)
                ELSE [calls EXCEPT ![k].pc = "returned",
                                   ![k].structure_analysis =
                                       WithScore(calls[k].structure_analysis, calls[k].sections)]
    /\ UNCHANGED <<op, pc, text, fault, cleaned, sections, spans, score, result, files,
                   analyses, out, processors>>

\* get_analysis_summary on the dict a call has returned: the dict is read.
Summarize(k) ==
    /\ op = "threads"
    /\ k \in 1..Len(calls)
    /\ calls[k].pc = "returned"
    /\ calls[k].summary = Unset
    /\ calls' = [calls EXCEPT ![k].summary = get_analysis_summary(calls[k].structure_analysis)]
    /\ UNCHANGED <<op, pc, text, fault, cleaned, sections, spans, score, result, files,
                   analyses, out, processors>>

NextThreads ==
    \/ \E t \in SessionTexts, raising \in SessionFaults : StartAnalysis(t, raising)
    \/ \E k \in 1..MaxFrames :
           StepClean(k) \/ StepSections(k) \/ StepBuild(k) \/ StepScore(k) \/ Summarize(k)

SpecThreads == InitThreads /\ [][NextThreads]_vars

(***************************************************************************)
(* The request handlers of src/routes.py for PDF records.                  *)
(***************************************************************************)

\* f"--- Página {page_num + 1} ---\n{page_text}" for the page at index page_num
PageEntry(page_num, page_text) ==
    PageTag \o <<" ">> \o Str(page_num + 1) \o <<" ","-","-","-","\n">> \o page_text

NoTextError == "No se pudo extraer texto del PDF"

\* extract_text_from_pdf on a file that opens.  A page whose extract_text()
\* raises, or whose text is blank, is left out; the call raises when
\* nothing is left: [raised, value], value the text or the message.
extract_text_from_pdf(pages) ==
    LET kept == SelectSeq([k \in 1..Len(pages) |-> k],
                          LAMBDA k : pages[k].readable /\ Strip(pages[k].text) # << >>)
        text_content == [j \in 1..Len(kept) |-> PageEntry(kept[j] - 1, pages[kept[j]].text)]
        full_text == Join(<<"\n", "\n">>, text_content)
    IN  IF Strip(full_text) = << >>
        THEN [raised |-> TRUE, value |-> NoTextError]
        ELSE [raised |-> FALSE, value |-> full_text]

\* A column that holds NULL, and one that holds v.
Null == << >>
Stored(v) == <<v>>

\* The most characters of the text that the record keeps.
MaxStoredText == 10000

\* ClassroomAnalysis() as upload_file fills it for a PDF, for what the
\* handlers below read and write.
NewAnalysis ==
    [analysis_type |-> "pdf",
     status |-> "uploaded",
     error_message |-> Null,
     pdf_text_content |-> Null,
     lesson_plan_structure |-> Null,
     ric_feedback |-> Null,
     analysis_timestamp |-> Null]

\* The twelve keys of "criterios_ministeriales" in _get_error_feedback.
Criteria ==
    {"desarrollo_competencias", "triangulacion", "criterios_evaluacion",
     "procesos_didacticos", "metacognicion", "secuencia_actividades",
     "tiempos_viables", "evaluacion_formativa", "principios_ebc_agencia",
     "principios_ebc_evaluacion", "principios_ebc_instruccion",
     "recursos_contextualizados"}

\* _get_error_feedback(error_message), for the keys that do not hold a
\* fixed text.
_get_error_feedback(error_message) ==
    [overall_score |-> 0,
     strengths |-> << >>,
     criterios_ministeriales |-> [c \in Criteria |-> "no_cumple"],
     error |-> error_message,
     lesson_plan_agent_version |-> "2.0_ministerial"]

\* What the model call does: it raises, or it answers with no content,
\* with a text that is not JSON, with JSON that is not an object, or with
\* a JSON object.
Answers == {"raises", "empty", "not_json", "not_object", "object"}

\* str(e) of the exception that the answer makes the try block raise.
AnswerError(answer) ==
    CASE answer = "raises" -> "Connection error."
      [] answer = "empty" -> "Empty response from AI model"
      [] answer = "not_json" -> "Expecting value: line 1 column 1 (char 0)"
      [] answer = "not_object" -> "'list' object does not support item assignment"

\* The try block of generate_pedagogical_feedback without its except
\* clause: the exception leaves the method.
FeedbackUncaught(answer) ==
    IF answer = "object"
    THEN [raised |-> FALSE,
          value |-> [overall_score |-> 80, analysis_timestamp |-> "utcnow",
                     lesson_plan_agent_version |-> "1.0",
                     analysis_type |-> "lesson_plan"]]
    ELSE [raised |-> TRUE, value |-> AnswerError(answer)]

\* generate_pedagogical_feedback(analysis_data): [raised, value].  The
\* parsed answer with three keys added, or _get_error_feedback(str(e))
\* when anything in the try block raised.
generate_pedagogical_feedback(answer) ==
    IF answer = "object"
    THEN [raised |-> FALSE,
          value |-> [overall_score |-> 80, analysis_timestamp |-> "utcnow",
                     lesson_plan_agent_version |-> "1.0",
                     analysis_type |-> "lesson_plan"]]
    ELSE [raised |-> FALSE, value |-> _get_error_feedback(AnswerError(answer))]

\* The message of the exception a step raises when the environment makes
\* it raise.
FaultText(step) == "raised in " \o step

\* process_pdf_analysis(analysis) followed, when it raises, by the except
\* clause of analyze: the record after the run.  The columns of structure
\* and feedback hold json.dumps of the values, which json.loads returns
\* unchanged for these dicts of str, int and list.
process_pdf_analysis(analysis, pages, raising, answer) ==
    LET \* opening the file raised (or the constructor of the agent before it)
        extracted == IF raising = "extract"
                     THEN [raised |-> TRUE, value |-> FaultText(raising)]
                     ELSE extract_text_from_pdf(pages)
        structure_analysis == analyze_lesson_plan_structure(extracted.value, raising)
        feedback == generate_pedagogical_feedback(answer)
    IN  IF extracted.raised
        THEN [analysis EXCEPT !.status = "error",
                              !.error_message = Stored(extracted.value)]
        ELSE IF feedback.raised
        THEN [analysis EXCEPT !.pdf_text_content = Stored(Slice(extracted.value, 0, MaxStoredText)),
                              !.lesson_plan_structure = Stored(structure_analysis),
                              !.status = "error",
                              !.error_message = Stored(feedback.value)]
        ELSE [analysis EXCEPT !.pdf_text_content = Stored(Slice(extracted.value, 0, MaxStoredText)),
                              !.lesson_plan_structure = Stored(structure_analysis),
                              !.ric_feedback = Stored(feedback.value),
                              !.status = "completed",
                              !.analysis_timestamp = Stored("utcnow")]

\* The pages of the PDFs that are uploaded.
MaxPages == 2
MaxRecords == 1

PageTexts ==
    { <<" ">>,
      <<"O","b","j","e","t","i","v","o","s"," ","g","e","n","e","r","a","l","e","s"," ">> \o Filler(33),
      <<"C","o","n","t","e","n","i","d","o","s"," ">> \o Filler(33),
      <<"r","ú","b","r","i","c","a","s",","," ","h","e","r","r","a",
        "m","i","e","n","t","a","s"," ","y"," ","c","r","o","n","o","g","r","a","m","a">> }

Pages == {[readable |-> TRUE, text |-> t] : t \in PageTexts}
         \cup {[readable |-> FALSE, text |-> << >>]}

PdfFiles == UNION {[1..n -> Pages] : n \in 0..MaxPages}

InitRoutes ==
    /\ op = "route"
    /\ pc = "idle"
    /\ text = << >>
    /\ fault = "none"
    /\ cleaned = Unset
    /\ sections = NoSections
    /\ spans = NoSpans
    /\ score = 0
    /\ result = NoResult
    /\ files = << >>
    /\ analyses = << >>
    /\ out = Unset
    /\ processors = << >>
    /\ calls = << >>

\* POST /upload of a PDF: the file is saved and the record is added.
UploadFile(pages) ==
    /\ op = "route"
    /\ Len(analyses) < MaxRecords
    /\ files' = Append(files, pages)
    /\ analyses' = Append(analyses, NewAnalysis)
    /\ UNCHANGED <<op, pc, text, fault, cleaned, sections, spans, score, result, out, processors, calls>>

\* GET /analyze/<analysis_id>: a record in status 'uploaded' is processed;
\* raising is the step of the run that the environment makes raise, answer
\* what the model call does.
AnalyzeRoute(analysis_id, raising, answer) ==
    /\ op = "route"
    /\ analysis_id \in 1..Len(analyses)
    /\ analyses[analysis_id].status = "uploaded"
    /\ analyses' = [analyses EXCEPT ![analysis_id] =
                        process_pdf_analysis(@, files[analysis_id], raising, answer)]
    /\ fault' = raising
    /\ UNCHANGED <<op, pc, text, cleaned, sections, spans, score, result, files, out, processors, calls>>

NextRoutes ==
    \/ \E pages \in PdfFiles : UploadFile(pages)
    \/ \E analysis_id \in 1..MaxRecords, raising \in Steps \cup {"none", "extract"},
          answer \in Answers : AnalyzeRoute(analysis_id, raising, answer)

SpecRoutes == InitRoutes /\ [][NextRoutes]_vars

(***************************************************************************)
(* Requests for one record that overlap.  Each GET /analyze/<id> is a      *)
(* frame that holds the record as its session loaded it; the frames        *)
(* advance from one db.session.commit() to the next in any order, and the  *)
(* requests of the results API read the table in between.                  *)
(***************************************************************************)

MaxRequests == 2

RequestFiles ==
    { << >>,
      <<[readable |-> TRUE,
         text |-> <<"O","b","j","e","t","i","v","o","s"," ","g","e","n","e","r","a","l","e","s"," ">>
                  \o Filler(33)]>> }

RequestFaults == {"none", "sections"}

RequestAnswers == {"object", "not_json"}

\* analysis = ClassroomAnalysis.query.get_or_404(analysis_id): what the
\* session of the request holds of the row.  alone tells whether every
\* earlier request for the record had ended when this one arrived.
NewRequest(analysis_id, row, alone) ==
    [analysis_id |-> analysis_id, pc |-> "check", status |-> row.status,
     started |-> FALSE, pdf_text |-> Unset, structure_analysis |-> NoResult,
     feedback |-> Null, error |-> Null, alone |-> alone]

\* An except clause that stores the message and leaves the status.
MarkErrorKeepStatus(row, message) ==
    [row EXCEPT !.error_message = message]

\* analysis.status = 'error'; analysis.error_message = str(e); commit
MarkError(row, message) ==
    [row EXCEPT !.status = "error", !.error_message = message]

\* get_ric_feedback and get_lesson_plan_structure: json.loads of the
\* column, {} when the column is empty.
EmptyDict == [c \in {} |-> << >>]

LoadColumn(column) == IF column = Null THEN EmptyDict ELSE column[1]

\* get_analysis_results without its test of the status.
ResultsUnguarded(analysis_id, row) ==
    [analysis_id |-> analysis_id, code |-> 200, analysis_type |-> row.analysis_type,
     feedback |-> LoadColumn(row.ric_feedback),
     lesson_structure |-> LoadColumn(row.lesson_plan_structure)]

\* get_analysis_results(analysis_id) on the row: the response.
get_analysis_results(analysis_id, row) ==
    IF row.status # "completed"
    THEN [analysis_id |-> analysis_id, code |-> 400, error |-> "Analysis not completed"]
    ELSE [analysis_id |-> analysis_id, code |-> 200, analysis_type |-> row.analysis_type,
          feedback |-> LoadColumn(row.ric_feedback),
          lesson_structure |-> LoadColumn(row.lesson_plan_structure)]

InitRequests ==
    /\ op = "requests"
    /\ pc = "idle"
    /\ text = << >>
    /\ fault = "none"
    /\ cleaned = Unset
    /\ sections = NoSections
    /\ spans = NoSpans
    /\ score = 0
    /\ result = NoResult
    /\ files = << >>
    /\ analyses = << >>
    /\ out = Unset
    /\ processors = << >>
    /\ calls = << >>

\* POST /upload of a PDF: the record the requests below are about.
UploadPdf(pages) ==
    /\ op = "requests"
    /\ analyses = << >>
    /\ files' = Append(files, pages)
    /\ analyses' = Append(analyses, NewAnalysis)
    /\ UNCHANGED <<op, pc, text, fault, cleaned, sections, spans, score, result, out,
                   processors, calls>>

\* GET /analyze/<analysis_id> arrives and loads the record.
BeginAnalyze(analysis_id) ==
    /\ op = "requests"
    /\ analysis_id \in 1..Len(analyses)
    /\ Len(calls) < MaxRequests
    /\ calls' = Append(calls, NewRequest(analysis_id, analyses[analysis_id],
                                         \A r \in 1..Len(calls) :
                                             calls[r].analysis_id = analysis_id
                                                 => calls[r].pc = "done"))
    /\ UNCHANGED <<op, pc, text, fault, cleaned, sections, spans, score, result, files,
                   analyses, out, processors>>

\* if analysis.status == 'uploaded': on the loaded record; otherwise the
\* page is rendered.
CheckStatus(r) ==
    /\ op = "requests"
    /\ r \in 1..Len(calls)
    /\ calls[r].pc = "check"
    /\ calls' = [calls EXCEPT ![r].pc = IF calls[r].status = "uploaded" THEN "start" ELSE "done"]
    /\ UNCHANGED <<op, pc, text, fault, cleaned, sections, spans, score, result, files,
                   analyses, out, processors>>

\* process_pdf_analysis begins: analysis.status = 'processing'; commit.
StartProcessing(r) ==
    /\ op = "requests"
    /\ r \in 1..Len(calls)
    /\ calls[r].pc = "start"
    /\ analyses' = [analyses EXCEPT ![calls[r].analysis_id].status = "processing"]
    /\ calls' = [calls EXCEPT ![r].pc = "extract", ![r].status = "processing",
                              ![r].started = TRUE]
    /\ UNCHANGED <<op, pc, text, fault, cleaned, sections, spans, score, result, files,
                   out, processors>>

\* Step 1: extract_text_from_pdf; the first characters are stored; commit.
\* When it raises the except clause stores the error; commit; raise.
ExtractText(r, raises) ==
    /\ op = "requests"
    /\ r \in 1..Len(calls)
    /\ calls[r].pc = "extract"
    /\ LET id == calls[r].analysis_id
           extracted == IF raises THEN [raised |-> TRUE, value |-> FaultText("extract")]
                        ELSE extract_text_from_pdf(files[id])
       IN  IF extracted.raised
           THEN /\ analyses' = [analyses EXCEPT ![id] = MarkError(@, Stored(extracted.value))]
                /\ calls' = [calls EXCEPT ![r].pc = "raised", ![r].status = "error",
                                          ![r].error = Stored(extracted.value)]
           ELSE /\ analyses' = [analyses EXCEPT ![id].pdf_text_content =
                                    Stored(Slice(extracted.value, 0, MaxStoredText))]
                /\ calls' = [calls EXCEPT ![r].pc = "structure",
                                          ![r].pdf_text = extracted.value]
    /\ UNCHANGED <<op, pc, text, fault, cleaned, sections, spans, score, result, files,
                   out, processors>>

\* Step 2: analyze_lesson_plan_structure; set_lesson_plan_structure; commit.
AnalyzeStructure(r, raising) ==
    /\ op = "requests"
    /\ r \in 1..Len(calls)
    /\ calls[r].pc = "structure"
    /\ LET structure_analysis == analyze_lesson_plan_structure(calls[r].pdf_text, raising)
       IN  /\ analyses' = [analyses EXCEPT ![calls[r].analysis_id].lesson_plan_structure =
                               Stored(structure_analysis)]
           /\ calls' = [calls EXCEPT ![r].pc = "feedback",
                                     ![r].structure_analysis = structure_analysis]
    /\ UNCHANGED <<op, pc, text, fault, cleaned, sections, spans, score, result, files,
                   out, processors>>

\* Step 3: generate_pedagogical_feedback; set_ric_feedback; the record is
\* marked completed; commit.
GenerateFeedback(r, answer) ==
    /\ op = "requests"
    /\ r \in 1..Len(calls)
    /\ calls[r].pc = "feedback"
    /\ LET id == calls[r].analysis_id
           feedback == generate_pedagogical_feedback(answer)
       IN  IF feedback.raised
           THEN /\ analyses' = [analyses EXCEPT ![id] = MarkError(@, Stored(feedback.value))]
                /\ calls' = [calls EXCEPT ![r].pc = "raised", ![r].status = "error",
                                          ![r].error = Stored(feedback.value)]
           ELSE /\ analyses' = [analyses EXCEPT ![id].ric_feedback = Stored(feedback.value),
                                                ![id].status = "completed",
                                                ![id].analysis_timestamp = Stored("utcnow")]
                /\ calls' = [calls EXCEPT ![r].pc = "done", ![r].status = "completed",
                                          ![r].feedback = Stored(feedback.value)]
    /\ UNCHANGED <<op, pc, text, fault, cleaned, sections, spans, score, result, files,
                   out, processors>>

\* The except clause of analyze, after process_pdf_analysis raised: the
\* error is stored once more; commit.
HandleError(r) ==
    /\ op = "requests"
    /\ r \in 1..Len(calls)
    /\ calls[r].pc = "raised"
    /\ analyses' = [analyses EXCEPT ![calls[r].analysis_id] = MarkError(@, calls[r].error)]
    /\ calls' = [calls EXCEPT ![r].pc = "done"]
    /\ UNCHANGED <<op, pc, text, fault, cleaned, sections, spans, score, result, files,
                   out, processors>>

\* GET /api/analysis/<analysis_id>/results
GetAnalysisResults(analysis_id) ==
    /\ op = "requests"
    /\ analysis_id \in 1..Len(analyses)
    /\ out' = get_analysis_results(analysis_id, analyses[analysis_id])
    /\ UNCHANGED <<op, pc, text, fault, cleaned, sections, spans, score, result, files,
                   analyses, processors, calls>>

NextRequests ==
    \/ \E pages \in RequestFiles : UploadPdf(pages)
    \/ \E analysis_id \in 1..MaxRecords : BeginAnalyze(analysis_id)
    \/ \E r \in 1..MaxRequests : CheckStatus(r)
    \/ \E r \in 1..MaxRequests : StartProcessing(r)
    \/ \E r \in 1..MaxRequests, raises \in BOOLEAN : ExtractText(r, raises)
    \/ \E r \in 1..MaxRequests, raising \in RequestFaults : AnalyzeStructure(r, raising)
    \/ \E r \in 1..MaxRequests, answer \in RequestAnswers : GenerateFeedback(r, answer)
    \/ \E r \in 1..MaxRequests : HandleError(r)
    \/ \E analysis_id \in 1..MaxRecords : GetAnalysisResults(analysis_id)

SpecRequests == InitRequests /\ [][NextRequests]_vars

\* s holds a match of r'--- Página \d+ ---'.
HasMarker(s) == \E k \in 0..(Len(s) - 1) : MarkerEnd(s, k) # -1

\* s holds two whitespace characters in a row.
HasSpaceRun(s) == \E k \in 1..(Len(s) - 1) : IsSpace(s[k]) /\ IsSpace(s[k + 1])

\* C3: the text _clean_text returns holds no two whitespace characters in a
\* row and no page marker '--- Página N ---'.
C3_CleanedHasNoSpaceRunNoMarker ==
    (op = "clean" /\ pc = "done") =>
        ~HasSpaceRun(cleaned) /\ ~HasMarker(cleaned)

\* The categories among names that secs holds with a span that has a
\* character other than whitespace.
NonBlankIn(names, secs) ==
    {c \in names : c \in DOMAIN secs /\ \E k \in 1..Len(secs[c]) : secs[c][k] \notin Whitespace}

\* C1: the score is floor((e/3)*70 + (r/3)*30), e and r the numbers of
\* essential and of recommended categories present with a non-blank span;
\* nothing else of the map matters.
C1_ScoreIsFloorOfWeights ==
    (op = "score" /\ pc = "done") =>
        LET e == Cardinality(NonBlankIn({"objetivos", "contenidos", "actividades"}, sections))
            r == Cardinality(NonBlankIn({"evaluacion", "recursos", "tiempo"}, sections))
        IN  score = (70 * e + 30 * r) \div 3

\* One essential and two recommended categories are non-blank, a blank
\* span is present as well, and the score is floor(43.33...).
C1_Witness ==
    /\ op = "score" /\ pc = "done"
    /\ DOMAIN sections = {"objetivos", "contenidos", "recursos", "tiempo"}
    /\ sections["contenidos"] = <<" ">>
    /\ sections["objetivos"] = <<"Y", " ">>
    /\ sections["recursos"] = <<"x">>
    /\ sections["tiempo"] = <<"x">>
    /\ score = 43

\* The call of analyze_lesson_plan_structure has returned.
Returned == op = "analyze" /\ pc = "done"

\* C2: every result of analyze_lesson_plan_structure, basic or not, has a
\* completeness_score from 0 to 100, which is 0 when no category is
\* detected and 100 when the six categories are detected with non-blank
\* content.
C2_ScoreWithinRange ==
    Returned =>
        /\ result.completeness_score \in 0..100
        /\ result.sections_found = << >> => result.completeness_score = 0
        /\ NonBlankIn(CategorySet, result.sections_content) = CategorySet
               => result.completeness_score = 100

\* The full plan has been analysed: six categories, score 100.
C2_Witness ==
    /\ Returned
    /\ fault = "none"
    /\ Len(result.sections_found) = 6
    /\ result.completeness_score = 100

\* C4: analyze_lesson_plan_structure never ends with an exception, and
\* when a step raises it returns the basic result: the six counts are 0 and
\* the six collections are empty.
C4_RaisingStepGivesBasicResult ==
    /\ op = "analyze" => pc \in {"call", "done"}
    /\ (Returned /\ fault \in Steps) =>
        /\ result.total_words = 0
        /\ result.total_pages = 0
        /\ result.activities_count = 0
        /\ result.completeness_score = 0
        /\ result.time_allocation.total_minutes = 0
        /\ result.time_allocation.activities_with_time = 0
        /\ result.sections_found = << >>
        /\ DOMAIN result.sections_content = {}
        /\ result.grade_level_indicators = << >>
        /\ result.learning_objectives = << >>
        /\ result.assessment_methods = << >>
        /\ result.resources_list = << >>

\* The scorer raised on the full plan, whose words, page and sections the
\* steps before it had found, and the basic result came back.
C4_Witness ==
    /\ Returned
    /\ fault = "score"
    /\ text = FullPlan
    /\ result = _get_basic_structure_analysis

\* C6: the basic result has the fields of a result of the normal path, and
\* its time_allocation has the fields of what _extract_time_info returns.
C6_BasicResultHasSameFields ==
    (Returned /\ fault \in Steps) =>
        /\ DOMAIN result = DOMAIN StructureAnalysis(<< >>)
        /\ DOMAIN result.time_allocation = DOMAIN _extract_time_info(<< >>)

\* The call of _extract_sections has returned.
Located == op = "sections" /\ pc = "done"

\* The offsets of the lowercased text at which a match of pattern k of
\* category c starts.
HeadingStarts(c, k) == AllStarts(Lower(text))[c][k]

\* The patterns of category c that match somewhere in the lowercased text.
Matching(c) == {k \in 1..Len(section_patterns[c]) : HeadingStarts(c, k) # {}}

\* C7: a category has a span exactly when one of its patterns matches; the
\* span starts at the leftmost match of the first pattern, in the listed
\* order, that matches anywhere, wherever the later patterns match; the
\* map holds one span per category, which begins at that offset.
C7_FirstListedPatternLeftmostMatch ==
    Located =>
        \A c \in CategorySet :
            IF Matching(c) = {}
            THEN c \notin DOMAIN spans /\ c \notin DOMAIN sections
            ELSE /\ c \in DOMAIN spans
                 /\ c \in DOMAIN sections
                 /\ spans[c].start_pos = Min(HeadingStarts(c, Min(Matching(c))))
                 /\ sections[c] = Slice(text, spans[c].start_pos,
                                        spans[c].start_pos + Len(sections[c]))

\* The fifth pattern of objetivos matches at offset 0 and the first one
\* later: the span starts at the match of the first one.
C7_Witness ==
    /\ Located
    /\ 0 \in HeadingStarts("objetivos", 5)
    /\ 1 \in Matching("objetivos")
    /\ spans["objetivos"].start_pos > 0

\* The offsets at or after offset from at which a match of a pattern of a
\* category other than c starts.
OtherHeadingsFrom(c, from) ==
    {i \in UNION {HeadingStarts(o, k) : <<o, k>> \in
                     UNION {{<<o, k>> : k \in 1..Len(section_patterns[o])} :
                            o \in CategorySet \ {c}}} : i >= from}

\* C8, as the spec words it: the span ends at the least start of a match
\* of a pattern of another category that lies strictly after offset
\* start + 50, or at the end of the text when there is none.
C8_EndIsNextHeadingStrictlyAfter50 ==
    Located =>
        \A c \in DOMAIN spans :
            LET next == OtherHeadingsFrom(c, spans[c].start_pos + Lookahead + 1)
            IN  spans[c].end_pos = IF next = {} THEN Len(text) ELSE Min(next)

\* C8, as the code has it: the span ends at the least start of a match of a
\* pattern of another category that lies at or after offset start + 50, or
\* at the end of the text when there is none; the category's own patterns
\* never end it.
C8_EndIsNextHeadingFrom50 ==
    Located =>
        \A c \in DOMAIN spans :
            LET next == OtherHeadingsFrom(c, spans[c].start_pos + Lookahead)
            IN  spans[c].end_pos = IF next = {} THEN Len(text) ELSE Min(next)

\* A heading of contenidos starts exactly 50 characters after the start of
\* the objetivos heading and ends the objetivos span, with text after it.
C8_Witness ==
    /\ Located
    /\ "objetivos" \in DOMAIN spans
    /\ spans["objetivos"].end_pos = spans["objetivos"].start_pos + Lookahead
    /\ spans["objetivos"].end_pos \in HeadingStarts("contenidos", 1)
    /\ spans["objetivos"].end_pos < Len(text)

\* C9: a heading of another category less than 50 characters after the
\* start of a span does not end the span: the span is not empty, reaches
\* past that heading, and ends at min(start + 50, len(text)) or later.
C9_NearbyHeadingDoesNotEndSpan ==
    Located =>
        \A c \in DOMAIN spans :
            /\ spans[c].end_pos > spans[c].start_pos
            /\ spans[c].end_pos >= (IF spans[c].start_pos + Lookahead < Len(text)
                                    THEN spans[c].start_pos + Lookahead ELSE Len(text))
            /\ \A i \in OtherHeadingsFrom(c, spans[c].start_pos + 1) :
                   i < spans[c].start_pos + Lookahead => spans[c].end_pos > i
            /\ sections[c] # << >>

\* A contenidos heading starts less than 50 characters after the objetivos
\* heading and the objetivos span holds it.
C9_Witness ==
    /\ Located
    /\ "objetivos" \in DOMAIN spans
    /\ \E i \in HeadingStarts("contenidos", 1) :
           /\ i > spans["objetivos"].start_pos
           /\ i < spans["objetivos"].start_pos + Lookahead
           /\ i + 10 <= spans["objetivos"].start_pos + Len(sections["objetivos"])

\* C10: every span of the map has at most 1000 characters and a character
\* that is not whitespace, so the categories of the map are the ones the
\* scorer counts; in every result of analyze_lesson_plan_structure the score
\* is 0 exactly when sections_found is empty.
C10_SpansCappedAndNonBlank ==
    Returned =>
        /\ \A c \in DOMAIN result.sections_content :
               /\ Len(result.sections_content[c]) <= MaxSpan
               /\ Strip(result.sections_content[c]) # << >>
        /\ NonBlankIn(CategorySet, result.sections_content) = DOMAIN result.sections_content
        /\ result.completeness_score = 0 <=> result.sections_found = << >>

\* A span was cut at 1000 characters, and the score is not 0.
C10_Witness ==
    /\ Returned
    /\ fault = "none"
    /\ \E c \in DOMAIN result.sections_content : Len(result.sections_content[c]) = MaxSpan
    /\ Len(text) > MaxSpan
    /\ result.completeness_score > 0

\* The runs of the structure analysis that degraded: the text was extracted,
\* a step of the analysis raised and the record holds the basic result.
Degraded(analysis) ==
    /\ fault \in Steps
    /\ analysis.lesson_plan_structure = Stored(_get_basic_structure_analysis)

\* C5: when the structure analysis fails and degrades to the basic result,
\* process_pdf_analysis marks the record: status 'error' and an error
\* message.
C5_DegradedAnalysisMarksRecord ==
    op = "route" =>
        \A id \in 1..Len(analyses) :
            Degraded(analyses[id]) =>
                /\ analyses[id].status = "error"
                /\ analyses[id].error_message # Null

C12_ScenarioAFindsObjectiveAndTimes ==
    (Returned /\ text = ScenarioA /\ fault = "none") =>
        /\ \E i \in 1..Len(result.sections_found) : result.sections_found[i] = "objetivos"
        /\ \E i \in 1..Len(result.sections_found) : result.sections_found[i] = "actividades"
        /\ result.learning_objectives = <<SubSeq(ScenarioA, 15, 51)>>
        /\ result.time_allocation.total_minutes = 30
        /\ result.time_allocation.activities_with_time = 2

\* C13: the analysis of the plan of Scenario C, whose only section is
\* "Evaluación: rúbrica y lista de cotejo", gives the assessment methods
\* "Rúbrica" and "Lista De Cotejo", in this order, and the score 10.
C13_ScenarioCMethodsAndScore ==
    (Returned /\ text = ScenarioC /\ fault = "none") =>
        /\ result.assessment_methods =
               << <<"R","ú","b","r","i","c","a">>,
                  <<"L","i","s","t","a"," ","D","e"," ","C","o","t","e","j","o">> >>
        /\ result.completeness_score = 10

\* The plan of Scenario C was analysed: one section was found, a
\* recommended one.
C13_Witness ==
    /\ Returned
    /\ text = ScenarioC
    /\ fault = "none"
    /\ result.sections_found = <<"evaluacion">>
    /\ Len(result.assessment_methods) = 2

\* C14: the analysis of the empty string, and of a text of whitespace
\* only, returns (it does not raise) a result with 0 words, no section
\* found and the score 0.
C14_BlankTextGivesEmptyResult ==
    (op = "analyze" /\ text \in BlankTexts /\ fault = "none") =>
        /\ pc \in {"call", "done"}
        /\ pc = "done" =>
            /\ result.total_words = 0
            /\ result.sections_found = << >>
            /\ result.completeness_score = 0

\* The empty string was analysed and the call returned.
C14_Witness ==
    /\ Returned
    /\ text = << >>
    /\ fault = "none"
    /\ result.total_words = 0

\* The page markers '--- Página N ---' of s, N one digit or more: the
\* offsets where a match of the pattern that _clean_text removes begins.
PageMarkers(s) == {k \in 0..(Len(s) - 1) : MarkerEnd(s, k) # -1}

\* C16: in every result of analyze_lesson_plan_structure, total_pages is
\* the number of page markers '--- Página N ---' of the text as it was
\* given, and total_words is the number of whitespace-separated words of the
\* normalized text.
C16_PagesCountMarkersWordsCountCleanWords ==
    (Returned /\ fault = "none") =>
        /\ result.total_pages = Cardinality(PageMarkers(text))
        /\ result.total_words = WordCount(_clean_text(text))

\* The call of the extractor named name has returned.
Extracted(name) == op = name /\ pc = "done"

\* The sum of the values of a function with a finite domain.
RECURSIVE SumOf(_)
SumOf(f) ==
    IF DOMAIN f = {} THEN 0
    ELSE LET k == CHOOSE x \in DOMAIN f : TRUE
         IN  f[k] + SumOf([j \in DOMAIN f \ {k} |-> f[j]])

\* The unit that follows, after optional whitespace, the run of digits
\* that begins at offset i of s matches pattern number p.
UnitFollows(s, i, p) ==
    WordEnd(time_patterns[p].units, Lower(s), SkipSpace(s, SkipDigits(s, i))) # -1

\* The numeric quantities of s that a minute or hour unit follows: the
\* offsets where a run of digits begins that such a unit follows.
Quantities(s) ==
    {i \in OffsetsOf(s, Digits) :
        /\ i = 0 \/ s[i] \notin Digits
        /\ \E p \in 1..Len(time_patterns) : UnitFollows(s, i, p)}

\* The minutes of the quantity at offset i: its value, times 60 when its
\* unit is an hour unit.
QuantityMinutes(s, i) ==
    DecimalValue(s, i, SkipDigits(s, i))
    * (IF \E p \in 1..Len(time_patterns) : time_patterns[p].hours /\ UnitFollows(s, i, p)
       THEN 60 ELSE 1)

\* C15: _extract_time_info counts each numeric quantity that a minute or
\* hour unit follows exactly once: total_minutes is the sum of the minutes
\* of those quantities (hours times 60) and activities_with_time is their
\* number.
C15_EachQuantityCountedOnce ==
    Extracted("time") =>
        /\ out.activities_with_time = Cardinality(Quantities(text))
        /\ out.total_minutes = SumOf([i \in Quantities(text) |-> QuantityMinutes(text, i)])

\* C17: every extractor called with the empty string returns its empty
\* value: _detect_grade_level, _extract_learning_objectives,
\* _extract_assessment_methods and _extract_resources an empty list,
\* _count_activities 0, and _extract_time_info 0 minutes and 0 quantities.
C17_EmptyStringGivesEmptyValue ==
    (op \in DOMAIN ExtractPieces /\ text = << >>) =>
        /\ pc \in {"call", "done"}
        /\ (pc = "done" /\ op \in {"grade", "objectives", "assessment", "resources"}) =>
               out = << >>
        /\ Extracted("activities") => out = 0
        /\ Extracted("time") =>
               out.total_minutes = 0 /\ out.activities_with_time = 0

\* _count_activities has returned from a call with the empty string.
C17_Witness ==
    /\ Extracted("activities")
    /\ text = << >>
    /\ out = 0

\* C18 as stated: for every non-empty text _count_activities returns
\* max(1, hits), hits being the hits of the four patterns added, and it
\* returns 0 only for the empty string.
C18_NonEmptyTextNeverZero ==
    Extracted("activities") =>
        /\ text # << >> => out = Max({1, ActivityHits(text)})
        /\ out = 0 => text = << >>

\* C18, amended: for every text that holds a character that is not
\* whitespace _count_activities returns max(1, hits); for the empty string
\* and for a text of whitespace only it returns 0.
C18_NonBlankTextNeverZero ==
    Extracted("activities") =>
        IF Strip(text) = << >>
        THEN out = 0
        ELSE out = Max({1, ActivityHits(text)})

\* _count_activities has returned 1, the floor, for a text with a
\* character that is not whitespace and without a hit.
C18_Witness ==
    /\ Extracted("activities")
    /\ Strip(text) # << >>
    /\ ActivityHits(text) = 0
    /\ out = 1

\* The first n elements of the sequence q, all of q when it has fewer.
FirstOf(q, n) == SubSeq(q, 1, Min({n, Len(q)}))

\* The trimmed matches of the three objective heuristics in s, qualifying
\* or not: numbered or bulleted lines first, then lines that begin with a
\* subject, then lines that begin with a verb, each in the order of the
\* text.
ObjectiveMatches(s) ==
    Groups(s, FindAll(ItemMatches(s), 0), -1)
    \o Groups(s, FindAll(LeadMatches(subject_words, s), 0), -1)
    \o Groups(s, FindAll(LeadMatches(verb_words, s), 0), -1)

\* C19: _extract_learning_objectives returns at most 5 entries, every entry
\* is trimmed and longer than 10 characters, and the entries are the first
\* 5 (or all, when fewer) of the matches longer than 10 characters, in the
\* order of the heuristics and, for one heuristic, of the text.
C19_FirstFiveLongObjectives ==
    Extracted("objectives") =>
        /\ Len(out) <= 5
        /\ \A j \in 1..Len(out) : Len(out[j]) > 10 /\ Strip(out[j]) = out[j]
        /\ out = FirstOf(SelectSeq(ObjectiveMatches(text), LAMBDA g : Len(g) > 10), 5)

\* _extract_learning_objectives has returned 5 entries of a text with more
\* than 5 matches longer than 10 characters and with a shorter match, the
\* entries coming from two heuristics.
C19_Witness ==
    /\ Extracted("objectives")
    /\ Len(out) = 5
    /\ Len(SelectSeq(ObjectiveMatches(text), LAMBDA g : Len(g) > 10)) > 5
    /\ \E j \in 1..Len(ObjectiveMatches(text)) : Len(ObjectiveMatches(text)[j]) <= 10
    /\ \E j \in 1..Len(out) : out[j] \notin {Groups(text, FindAll(ItemMatches(text), 0), -1)[k] :
                                   k \in 1..Len(FindAll(ItemMatches(text), 0))}

\* The trimmed matches of the two resource heuristics in s, long or short.
ResourceMatches(s) ==
    Groups(s, FindAll(ItemMatches(s), 0), -1) \o Groups(s, FindAll(NamedMatches(s), 0), -1)

\* C20: _extract_resources returns at most 10 entries, and every entry is
\* trimmed and longer than 3 characters.
C20_AtMostTenLongResources ==
    Extracted("resources") =>
        /\ Len(out) <= 10
        /\ \A j \in 1..Len(out) : Len(out[j]) > 3 /\ Strip(out[j]) = out[j]

\* _extract_resources has returned 10 entries of a text with more than 10
\* matches longer than 3 characters and with a match of 3 characters or
\* fewer.
C20_Witness ==
    /\ Extracted("resources")
    /\ Len(out) = 10
    /\ Len(SelectSeq(ResourceMatches(text), LAMBDA g : Len(g) > 3)) > 10
    /\ \E j \in 1..Len(ResourceMatches(text)) : Len(ResourceMatches(text)[j]) <= 3

\* lit is a substring of s.
Occurs(lit, s) == \E i \in 0..(Len(s) - Len(lit)) : LitAt(lit, s, i)

\* The position in assessment_keywords of the keyword whose title-cased
\* label is label, or 0.
KeywordOf(label) ==
    LET ks == {k \in 1..Len(assessment_keywords) : Title(assessment_keywords[k]) = label}
    IN  IF ks = {} THEN 0 ELSE Min(ks)

\* C21: _extract_assessment_methods returns the title-cased labels of the
\* keywords that occur in the lowercased text, and of no other: every entry
\* is the label of a keyword, the entries follow the order of the keyword
\* list, no entry comes twice (so there are at most 12), and a keyword's
\* label is in the result exactly when the keyword occurs.
C21_MethodsAreOccurringKeywordsInListOrder ==
    Extracted("assessment") =>
        /\ Len(out) <= 12
        /\ \A j \in 1..Len(out) : KeywordOf(out[j]) # 0
        /\ \A i, j \in 1..Len(out) : i < j => KeywordOf(out[i]) < KeywordOf(out[j])
        /\ \A k \in 1..Len(assessment_keywords) :
               (\E j \in 1..Len(out) : KeywordOf(out[j]) = k)
                   <=> Occurs(assessment_keywords[k], Lower(text))

\* _extract_assessment_methods has returned two labels for a text where
\* the keyword later in the list comes first, in capitals, and the other
\* keyword occurs twice.
C21_Witness ==
    /\ Extracted("assessment")
    /\ Len(out) = 2
    /\ KeywordOf(out[1]) = 2
    /\ LitAt(<<"E","X","A","M","E","N">>, text, 0)
    /\ Cardinality({i \in 0..Len(text) : LitAt(assessment_keywords[2], Lower(text), i)}) = 2

\* The position in grade_indicators of the band named level, or 0.
BandOf(level) ==
    LET ls == {l \in 1..Len(grade_indicators) : grade_indicators[l].level = level}
    IN  IF ls = {} THEN 0 ELSE Min(ls)

\* An indicator token of band number l occurs in s.
BandOccurs(l, s) ==
    \E k \in 1..Len(grade_indicators[l].indicators) :
        Occurs(grade_indicators[l].indicators[k], s)

\* C22: grade_level_indicators holds names of the five grade bands, in
\* catalog order and none twice, and a band is in it exactly when one of
\* its indicator tokens occurs in the lowercased normalized text, the whole
\* of it, inside a section span or not.
C22_BandsOfWholeCleanTextInCatalogOrder ==
    (Returned /\ fault = "none") =>
        LET g == result.grade_level_indicators
        IN  /\ \A j \in 1..Len(g) : BandOf(g[j]) # 0
            /\ \A i, j \in 1..Len(g) : i < j => BandOf(g[i]) < BandOf(g[j])
            /\ \A l \in 1..Len(grade_indicators) :
                   (\E j \in 1..Len(g) : BandOf(g[j]) = l)
                       <=> BandOccurs(l, Lower(_clean_text(text)))

\* A text was analysed where two indicators of primaria_alta come before
\* the one of primaria_baja, all before the first heading and so outside
\* the only span: the two bands come back in catalog order.
C22_Witness ==
    /\ Returned
    /\ fault = "none"
    /\ result.grade_level_indicators = <<"primaria_baja", "primaria_alta">>
    /\ result.sections_found = <<"objetivos">>
    /\ ~BandOccurs(2, Lower(result.sections_content["objetivos"]))
    /\ ~BandOccurs(3, Lower(result.sections_content["objetivos"]))

\* The position of the category c in the catalog, or 0.
CatalogIndex(c) ==
    LET ks == {k \in 1..Len(Categories) : Categories[k] = c}
    IN  IF ks = {} THEN 0 ELSE Min(ks)

\* C23: sections_found lists categories of the catalog in the order of the
\* catalog (objetivos, contenidos, actividades, evaluacion, recursos,
\* tiempo), none twice, wherever the headings stand in the document.
C23_SectionsFoundInCatalogOrder ==
    (Returned /\ fault = "none") =>
        /\ \A j \in 1..Len(result.sections_found) : CatalogIndex(result.sections_found[j]) # 0
        /\ \A i, j \in 1..Len(result.sections_found) :
               i < j => CatalogIndex(result.sections_found[i]) < CatalogIndex(result.sections_found[j])

\* A text was analysed where the heading of contenidos stands before the
\* heading of objetivos: objetivos is listed first.
C23_Witness ==
    /\ Returned
    /\ fault = "none"
    /\ result.sections_found = <<"objetivos", "contenidos">>
    /\ LET at == SectionSpans(_clean_text(text))
       IN  at["contenidos"].start_pos < at["objetivos"].start_pos

\* The call of get_analysis_summary has returned.
Summarized == op = "summary" /\ pc = "done"

\* s.split("\n")
RECURSIVE SplitLines(_)
SplitLines(s) ==
    LET nl == {k \in 1..Len(s) : s[k] = "\n"}
    IN  IF nl = {} THEN <<s>>
        ELSE <<SubSeq(s, 1, Min(nl) - 1)>> \o SplitLines(SubSeq(s, Min(nl) + 1, Len(s)))

\* The lines of the digest in their fixed order; position 8 stands for the
\* numbered objective lines.
LineOrder ==
    <<"header", "pages", "words", "score", "blank", "sections", "objectives", "objective",
      "activities", "assessment", "time">>

\* The position in LineOrder of the kind of a line, told by its constant
\* text, or 0.
LineKind(line) ==
    IF line = SummaryText.header THEN 1
    ELSE IF LitAt(SummaryText.pages, line, 0) THEN 2
    ELSE IF LitAt(SummaryText.words, line, 0) THEN 3
    ELSE IF LitAt(SummaryText.score, line, 0) THEN 4
    ELSE IF line = << >> THEN 5
    ELSE IF LitAt(SummaryText.sections, line, 0) THEN 6
    ELSE IF LitAt(SummaryText.objectives, line, 0) THEN 7
    ELSE IF LitAt(<<" ", " ">>, line, 0) /\ LitAt(<<".", ".", ".">>, line, Len(line) - 3) THEN 8
    ELSE IF LitAt(SummaryText.activities, line, 0) THEN 9
    ELSE IF LitAt(SummaryText.assessment, line, 0) THEN 10
    ELSE IF LitAt(SummaryText.time, line, 0) THEN 11
    ELSE 0

\* The lines of kind k of the digest in out.
LinesOfKind(k) == SelectSeq(SplitLines(out), LAMBDA line : LineKind(line) = k)

\* The field f of the dict is there and its value is a non-empty list, or
\* a number greater than 0.
HasItems(f) == f \in DOMAIN result /\ result[f] # << >>
IsPositive(f) == f \in DOMAIN result /\ result[f] > 0
HasMinutes ==
    /\ "time_allocation" \in DOMAIN result
    /\ "total_minutes" \in DOMAIN result.time_allocation
    /\ result.time_allocation.total_minutes > 0

\* The lines come in the fixed order, the objective lines are at most 3 and
\* each shows the first 100 characters of its objective, and the sections,
\* objectives, activities, assessment and time lines are there exactly when
\* the value is not empty, or greater than 0.
SummaryInOrderAndGuarded ==
    LET lines == SplitLines(out)
    IN  /\ \A j \in 1..Len(lines) : LineKind(lines[j]) # 0
        /\ \A i, j \in 1..Len(lines) :
               i < j => \/ LineKind(lines[i]) < LineKind(lines[j])
                        \/ LineKind(lines[i]) = 8 /\ LineKind(lines[j]) = 8
        /\ Len(LinesOfKind(6)) = (IF HasItems("sections_found") THEN 1 ELSE 0)
        /\ Len(LinesOfKind(7)) = (IF HasItems("learning_objectives") THEN 1 ELSE 0)
        /\ Len(LinesOfKind(8)) =
               (IF HasItems("learning_objectives")
                THEN Min({3, Len(result.learning_objectives)}) ELSE 0)
        /\ \A i \in 1..Len(LinesOfKind(8)) :
               LinesOfKind(8)[i] =
                   <<" ", " ">> \o Str(i) \o <<".", " ">>
                   \o SubSeq(result.learning_objectives[i], 1,
                             Min({100, Len(result.learning_objectives[i])}))
                   \o <<".", ".", ".">>
        /\ Len(LinesOfKind(9)) = (IF IsPositive("activities_count") THEN 1 ELSE 0)
        /\ Len(LinesOfKind(10)) = (IF HasItems("assessment_methods") THEN 1 ELSE 0)
        /\ Len(LinesOfKind(11)) = (IF HasMinutes THEN 1 ELSE 0)

\* C24 as stated: get_analysis_summary returns; the lines come in the
\* fixed order, guarded as above; and a field that is missing from the
\* dict gives no line, the page, word and score lines included.
C24_MissingFieldGivesNoLine ==
    /\ op = "summary" => pc \in {"call", "done"}
    /\ Summarized =>
        /\ SummaryInOrderAndGuarded
        /\ "total_pages" \notin DOMAIN result => LinesOfKind(2) = << >>
        /\ "total_words" \notin DOMAIN result => LinesOfKind(3) = << >>
        /\ "completeness_score" \notin DOMAIN result => LinesOfKind(4) = << >>

\* C24, amended: get_analysis_summary returns; the lines come in the fixed
\* order, guarded as above; the title, page, word and score lines and the
\* blank line are always there, the three counts showing 0 for a field
\* that is missing.
C24_CountLinesAlwaysThere ==
    /\ op = "summary" => pc \in {"call", "done"}
    /\ Summarized =>
        /\ SummaryInOrderAndGuarded
        /\ \A k \in 1..5 : Len(LinesOfKind(k)) = 1
        /\ "total_pages" \notin DOMAIN result
               => LinesOfKind(2) = <<SummaryText.pages \o <<"0">> >>
        /\ "total_words" \notin DOMAIN result
               => LinesOfKind(3) = <<SummaryText.words \o <<"0">> >>
        /\ "completeness_score" \notin DOMAIN result
               => LinesOfKind(4) = <<SummaryText.score \o <<"0">> \o SummaryText.of100>>

\* get_analysis_summary has returned the digest of a dict with 4
\* objectives, the second longer than 100 characters, with every other
\* optional line, and without the field total_words.
C24_Witness ==
    /\ Summarized
    /\ "total_words" \notin DOMAIN result
    /\ HasItems("sections_found")
    /\ HasItems("learning_objectives")
    /\ Len(result.learning_objectives) = 4
    /\ IsPositive("activities_count")
    /\ HasItems("assessment_methods")
    /\ HasMinutes
    /\ Len(SplitLines(out)) = 13
    /\ Len(SplitLines(out)[9]) = 108

\* C25: no step writes the catalogs and no two calls share a result.  On an
\* instance where analyses advance step by step in any order, mixed with
\* get_analysis_summary calls and with calls that degrade, the instance still
\* holds the catalogs of its construction, two calls never hold the same
\* dict, and the dict a call has returned is the one that call alone would
\* have made of its text, also after it was summarized.
C25_CatalogsAndResultsUntouched ==
    op = "threads" =>
        /\ \A p \in 1..Len(processors) :
               /\ processors[p].section_patterns = section_patterns
               /\ processors[p].grade_indicators = grade_indicators
        /\ \A i, j \in 1..Len(calls) :
               (i # j /\ calls[i].object # 0 /\ calls[j].object # 0)
                   => calls[i].object # calls[j].object
        /\ \A i \in 1..Len(calls) :
               calls[i].pc = "returned" =>
                   calls[i].structure_analysis
                       = analyze_lesson_plan_structure(calls[i].text, calls[i].fault)

\* C25 witness: two degraded calls have returned on the instance, the second
\* one passing the first, and both results have been summarized.
C25_Witness ==
    /\ op = "threads"
    /\ Len(calls) = 2
    /\ \A i \in 1..2 : /\ calls[i].pc = "returned"
                       /\ calls[i].fault = "score"
                       /\ calls[i].summary # Unset
    /\ calls[2].object < calls[1].object

\* C29: generate_pedagogical_feedback never raises.  Whatever the model call
\* does, the method returns; when the call raised or its answer was empty,
\* not JSON or not an object, it returns the error feedback: overall_score
\* 0, each of the twelve ministerial criteria 'no_cumple', and the message
\* under 'error'.  So a run whose text extraction succeeded ends in
\* 'completed' with the feedback it got, also when the structural analysis
\* degraded, and never in 'error'.
C29_FeedbackNeverRaises ==
    /\ Cardinality(Criteria) = 12
    /\ \A answer \in Answers :
           LET feedback == generate_pedagogical_feedback(answer)
           IN  /\ ~feedback.raised
               /\ answer # "object" =>
                      /\ feedback.value.overall_score = 0
                      /\ DOMAIN feedback.value.criterios_ministeriales = Criteria
                      /\ \A c \in Criteria :
                             feedback.value.criterios_ministeriales[c] = "no_cumple"
                      /\ feedback.value.error = AnswerError(answer)
    /\ op = "requests" =>
           \A r \in 1..Len(calls) :
               (calls[r].pdf_text # Unset /\ calls[r].pc \notin {"structure", "feedback"})
                   => /\ calls[r].pc = "done"
                      /\ calls[r].status = "completed"
                      /\ calls[r].error = Null
                      /\ \E answer \in Answers :
                             calls[r].feedback
                                 = Stored(generate_pedagogical_feedback(answer).value)

\* C29 witness: a run whose structural analysis degraded and whose model
\* answer was not JSON has ended in 'completed' with the error feedback.
C29_Witness ==
    /\ op = "requests"
    /\ Len(calls) = 1
    /\ calls[1].pc = "done"
    /\ calls[1].status = "completed"
    /\ calls[1].structure_analysis = _get_basic_structure_analysis
    /\ calls[1].feedback = Stored(_get_error_feedback(AnswerError("not_json")))
    /\ analyses[1].status = "completed"
    /\ analyses[1].ric_feedback = calls[1].feedback

\* The requests that have begun the processing run of the record.
StartedRuns(analysis_id) ==
    {r \in 1..Len(calls) : calls[r].analysis_id = analysis_id /\ calls[r].started}

\* C26: for any interleaving of GET /analyze/<id> requests for a record in
\* status 'uploaded', the processing run is started at most once: two
\* requests never both pass the test of the status and write 'processing'.
C26_RunStartedAtMostOnce ==
    op = "requests" =>
        \A analysis_id \in 1..Len(analyses) : Cardinality(StartedRuns(analysis_id)) <= 1

\* The changes of status that a processing run makes.
RunSteps ==
    {<<"uploaded", "processing">>, <<"processing", "completed">>,
     <<"processing", "error">>}

\* The requests for the record came one after the other.
OneAtATime(analysis_id) ==
    \A r \in 1..Len(calls) : calls[r].analysis_id = analysis_id => calls[r].alone

\* Every request for the record has ended, and one of them ran the
\* processing.
RunsEnded(analysis_id) ==
    /\ StartedRuns(analysis_id) # {}
    /\ \A r \in 1..Len(calls) : calls[r].analysis_id = analysis_id => calls[r].pc = "done"

\* A record at rest: its status is one of the four, an 'error' carries the
\* text of the exception of a run, and when the requests have ended after
\* a run the status is 'completed' or 'error'.
RecordSettled(id) ==
    /\ analyses[id].status \in {"uploaded", "processing", "completed", "error"}
    /\ analyses[id].status = "error" =>
           \E r \in StartedRuns(id) : /\ calls[r].error # Null
                                      /\ analyses[id].error_message = calls[r].error
    /\ RunsEnded(id) => analyses[id].status \in {"completed", "error"}

\* A record in a step: its status changes as a run changes it, and a run
\* begins on a record in 'uploaded' only.
RecordFollowsRun(id) ==
    /\ analyses'[id].status # analyses[id].status
           => <<analyses[id].status, analyses'[id].status>> \in RunSteps
    /\ StartedRuns(id)' # StartedRuns(id) => analyses[id].status = "uploaded"

\* A record is created as 'uploaded'.
CreatedUploaded ==
    \A id \in 1..Len(analyses') : id > Len(analyses) => analyses'[id].status = "uploaded"

CompletedIsWhole(id) ==
    analyses[id].status = "completed" =>
        /\ analyses[id].lesson_plan_structure # Null
        /\ analyses[id].ric_feedback # Null
        /\ analyses[id].analysis_timestamp # Null

\* The response of the results API in a step that answers: 200 with the
\* stored structure and feedback for a record in 'completed', 400 with no
\* data for any other status.
AnswersForCompletedOnly ==
    out' # out =>
        LET row == analyses[out'.analysis_id]
        IN  /\ out'.code \in {200, 400}
            /\ out'.code = 200 <=> row.status = "completed"
            /\ out'.code = 400 => DOMAIN out' = {"analysis_id", "code", "error"}
            /\ out'.code = 200 =>
                   /\ out'.feedback # EmptyDict
                   /\ out'.lesson_structure # EmptyDict
                   /\ row.ric_feedback = Stored(out'.feedback)
                   /\ row.lesson_plan_structure = Stored(out'.lesson_structure)

\* The data of a 200 response is what one run that has ended stored.
AnswersOneRun ==
    (out' # out /\ out'.code = 200) =>
        \E r \in StartedRuns(out'.analysis_id) :
            /\ calls[r].pc = "done"
            /\ calls[r].feedback = Stored(out'.feedback)
            /\ calls[r].structure_analysis = out'.lesson_structure

NoLineMatch(r) ==
    /\ r.learning_objectives = << >>
    /\ \A c \in DOMAIN r.sections_content :
           LET span == r.sections_content[c]
           IN  /\ c = "objetivos" =>
                      /\ FindAll(ItemMatches(span), 0) = << >>
                      /\ FindAll(LeadMatches(subject_words, span), 0) = << >>
                      /\ FindAll(LeadMatches(verb_words, span), 0) = << >>
               /\ c = "recursos" => FindAll(ItemMatches(span), 0) = << >>
               /\ c = "actividades" =>
                      /\ FindAll(TaskMatches(span), 0) = << >>
                      /\ FindAll(StepMatches(span), 0) = << >>

\* The normalized text has no newline, and the objetivos span begins with
\* a match of a heading of its category.
SpanBeginsWithHeading(t, r) ==
    /\ LET cleaned_text == _clean_text(t)
       IN  \A i \in 1..Len(cleaned_text) : cleaned_text[i] # "\n"
    /\ "objetivos" \in DOMAIN r.sections_content =>
           \E k \in 1..Len(section_patterns["objetivos"]) :
               0 \in AllStarts(Lower(r.sections_content["objetivos"]))["objetivos"][k]

\* C30 as stated: in every result of analyze_lesson_plan_structure
\* learning_objectives is empty; the objetivos span begins with its own
\* heading, and no heuristic anchored at the start of a line matches in a
\* located span, in the objectives, in the resources or in the activities.
C30_ObjectivesAlwaysEmpty ==
    (Returned /\ fault = "none") =>
        /\ SpanBeginsWithHeading(text, result)
        /\ NoLineMatch(result)

\* C30 for texts without U+0130: the same, for every text whose lower case
\* has the length of the text.
C30_ObjectivesEmptyWithoutDottedI ==
    (Returned /\ fault = "none" /\ \A i \in 1..Len(text) : text[i] # DottedI) =>
        /\ SpanBeginsWithHeading(text, result)
        /\ NoLineMatch(result)

\* C30 witness: a text with numbered and bulleted items under its headings,
\* which the objectives extractor would list when given the text itself,
\* has been analysed: the three categories are located, no objective is
\* listed and the activity count is the floor of 1.
C30_Witness ==
    /\ Returned
    /\ fault = "none"
    /\ text \in ListTexts
    /\ _extract_learning_objectives(text) # << >>
    /\ {"objetivos", "recursos", "actividades"} \subseteq DOMAIN result.sections_content
    /\ result.learning_objectives = << >>
    /\ result.activities_count = 1

====
